---- MODULE Spec2Model ----
(***************************************************************************)
(* Jump detection of activsensor.github.io: the live JumpEventDetector     *)
(* (JumpEventDetector.js), the batch detector and capture controller of    *)
(* js/jumpApp.js, the calibration routine and the metrics layer            *)
(* (JumpMetrics.js).                                                       *)
(*                                                                         *)
(* Numbers.  The code computes with IEEE doubles; the model computes with  *)
(* integers in fixed units and rounds every division down:                 *)
(*   time          1 tick = 10 ms.  Millisecond quantities (timeStamp,     *)
(*                 calibMs) and second quantities (t, tTakeoff, minFlight) *)
(*                 are both counted in ticks, so t = tMs / 1000 is a       *)
(*                 change of unit only.                                    *)
(*   acceleration  1 unit = 0.01 m/s^2.                                    *)
(*   gUnit         a unit vector scaled by UnitScale.                      *)
(* null is Null, NaN is NaN.                                               *)
(***************************************************************************)
EXTENDS Integers, Sequences, FiniteSets, TLC

VARIABLES
    mode,               \* which script the page runs: "live", "batch", ...
    now,                \* timeStamp of the last devicemotion event dispatched
    nSamples,           \* number of devicemotion events dispatched so far
    feed,               \* the devicemotion events still to come, when they are scripted
    det,                \* the JumpEventDetector instance (live)
    jumps,              \* the events handed to onJump, in order (live)
    last,               \* history: the last operation, the detector and the number of jumps before it
    stale,              \* history: which pending markers were recorded before a stop()
    permissionGranted,  \* jumpApp.js
    capturing,          \* jumpApp.js
    listening,          \* jumpApp.js: handleMotion is registered on window
    motionData,         \* jumpApp.js
    analysis,           \* jumpApp.js: what the last analyzeJumps() produced
    calibration,        \* JumpEventDetector.calibrate(): the pending call
    perfNow,            \* performance.now()
    mEvents,            \* JumpMetrics.js: the event list given to summarizeSeries
    seriesSummary,      \* JumpMetrics.js: what summarizeSeries returned
    call,               \* JumpMetrics.js: a call of one of the formula functions
    ret,                \* JumpMetrics.js: what that call returned
    trigger,            \* the DOM event createDoubleTapTrigger listens to
    lastTapTs,          \* timestamp of the pending first tap, 0 if none
    tapLog,             \* history: the accepted taps, and which of them fired
    sinceStart,         \* history: the samples handled since the last startCapture
    hasSensorAPI,       \* part_002, part_003: 'LinearAccelerationSensor' in window
    accelSensor,        \* part_002, part_003: does the global hold a sensor
    sensors,            \* the sensors started and not stopped, their handler registered
    resetShown,         \* part_002, part_003: the Reset button is in resultsDiv
    timers,             \* part_002: the setTimeout calls still pending
    countdowns,         \* history: the countdowns started, with what each has done
    failed,             \* history: the positions in jumps of the events whose onJump threw
    controller          \* js/app.js: the SensorController, the sensors it made, its history

vars == <<mode, now, nSamples, feed, det, jumps, last, stale, permissionGranted,
          capturing, listening, motionData, analysis, calibration, perfNow,
          mEvents, seriesSummary, call, ret, trigger, lastTapTs, tapLog,
          sinceStart, hasSensorAPI, accelSensor, sensors, resetShown, timers,
          countdowns, failed, controller>>

streamVars == <<now, nSamples, feed>>
liveVars == <<det, jumps, stale>>
batchVars == <<permissionGranted, capturing, listening, motionData, analysis,
               sinceStart>>
calibVars == <<calibration, perfNow>>
metricVars == <<mEvents, seriesSummary>>
formulaVars == <<call, ret>>
callbackVars == <<failed>>
chartVars == <<controller>>
tapVars == <<trigger, lastTapTs, tapLog>>
sensorVars == <<hasSensorAPI, accelSensor, sensors>>
timerVars == <<timers, countdowns>>
pageVars == <<tapVars, sensorVars, resetShown, timerVars>>

(***************************************************************************)
(* Bounds of the model                                                     *)
(***************************************************************************)
MaxSamples == 3
MaxCalibSamples == 12
MaxClock == 300
MaxEvents == 2
MaxTaps == 4
MaxSeries == 6
MaxReadings == 5
MaxPushes == 102
MaxStarts == 3

(***************************************************************************)
(* Representation                                                          *)
(***************************************************************************)
Null == 0 - 1
NaN == 0 - 1000000
UnitScale == 1000

\* alpha = 0.2 as the fraction AlphaNum / AlphaDen
AlphaNum == 1
AlphaDen == 5

\* default thresholds (part_005 lines 81-87; js/jumpApp.js lines 30-36 has the same)
flightEpsMag == 50
flightEpsVert == 60
moveThresh == 120
minFlight == 10
maxFlight == 120
minContact == 8
FallbackWindow == 20
calibMsDefault == 50

(***************************************************************************)
(* The devicemotion events the environment may dispatch: three readings    *)
(* of accelerationIncludingGravity (at rest, pushing off at 2 g, no        *)
(* reading at all) and the time since the previous event.                  *)
(***************************************************************************)
AccRest == <<0, 981, 0>>
AccPush == <<0, 1962, 0>>
AccZero == <<0, 0, 0>>
AccSet == {AccRest, AccPush, AccZero}
\* an event with no acceleration object, and a reading at rest whose z is missing
NoAcc == <<>>
AccNoAxis == <<0, 981, Null>>
RawAccSet == AccSet \cup {NoAcc, AccNoAxis}
DtSet == {0, 10, 30, 100}
\* the readings of the stream of part_002: at rest, a knock of 3 g, a faint one
AccTap == <<0, 2943, 0>>
AccFaint == <<5, 200, 5>>
TapAccSet == {AccRest, AccTap, AccFaint}

FreeFeed == [scripted |-> FALSE, period |-> 0, rest |-> <<>>]
\* a longer stream of well-formed readings at a fixed rate, the first of them
\* at one of three times after the time origin
SeriesPeriods == {10, 30}
SeriesFeed(p) == [scripted |-> FALSE, period |-> p, rest |-> <<>>]

\* the events that may be dispatched next: [dt, acc]
Offered ==
    IF feed.scripted
    THEN IF feed.rest = <<>> THEN {} ELSE {Head(feed.rest)}
    ELSE IF mode = "countdown"
         THEN IF nSamples < MaxReadings
              THEN [dt : IF nSamples = 0 THEN {10, 100} ELSE {feed.period},
                    acc : TapAccSet]
              ELSE {}
    ELSE IF feed.period > 0
         THEN IF nSamples < MaxSeries
              THEN [dt : IF nSamples = 0 THEN {10, 30, 100} ELSE {feed.period},
                    acc : AccSet]
              ELSE {}
    ELSE IF nSamples < MaxSamples
         THEN [dt : DtSet, acc : RawAccSet]
         ELSE {}

FeedAfter == IF feed.scripted THEN [feed EXCEPT !.rest = Tail(@)] ELSE feed

(***************************************************************************)
(* Vector utilities                                                        *)
(***************************************************************************)
Abs(x) == IF x < 0 THEN 0 - x ELSE x
Max(a, b) == IF a >= b THEN a ELSE b

RECURSIVE SqrtSearch(_, _, _)
SqrtSearch(n, lo, hi) ==
    IF lo >= hi THEN lo
    ELSE LET mid == (lo + hi + 1) \div 2
         IN  IF mid * mid <= n THEN SqrtSearch(n, mid, hi)
             ELSE SqrtSearch(n, lo, mid - 1)

\* 46340 is the largest integer whose square fits 32 bits
Isqrt(n) == SqrtSearch(n, 0, 46340)

dot(a, b) == a[1] * b[1] + a[2] * b[2] + a[3] * b[3]
norm(a) == Isqrt(a[1] * a[1] + a[2] * a[2] + a[3] * a[3])

\* alpha * x + (1 - alpha) * prev; NaN if either is NaN
Ema(x, prev) ==
    IF x = NaN \/ prev = NaN THEN NaN
    ELSE (AlphaNum * x + (AlphaDen - AlphaNum) * prev) \div AlphaDen

\* Math.abs(aTotEma - g0) < flightEpsMag && Math.abs(aVertEma) < flightEpsVert
IsFlight(aTotEma, aVertEma, g0) ==
    /\ aTotEma # NaN /\ aVertEma # NaN
    /\ Abs(aTotEma - g0) < flightEpsMag
    /\ Abs(aVertEma) < flightEpsVert

\* Math.abs(aVertEma) > moveThresh
HasMotion(aVertEma) == aVertEma # NaN /\ Abs(aVertEma) > moveThresh

(***************************************************************************)
(* JumpEventDetector (live)                                                *)
(***************************************************************************)
NoDetector ==
    [constructed |-> FALSE, gUnit |-> AccZero, g0 |-> 0, running |-> FALSE,
     aVertEma |-> 0, aTotEma |-> 0, lastTs |-> Null,
     inFlight |-> FALSE, inMotion |-> FALSE,
     tContactStart |-> Null, tTakeoff |-> Null, tLanding |-> Null]

\* what a caller may pass as opts: a calibration result, or nothing
DetectorOpts == {[gUnit |-> <<0, 1000, 0>>, g0 |-> 981],
                 [gUnit |-> <<0, 1000, 0>>, g0 |-> 0]}

\* constructor: throws when gUnit or g0 is missing (falsy)
JumpEventDetector(opts) ==
    IF opts.g0 = 0 THEN NoDetector
    ELSE [constructed |-> TRUE, gUnit |-> opts.gUnit, g0 |-> opts.g0,
          running |-> FALSE,
          aVertEma |-> 0, aTotEma |-> opts.g0, lastTs |-> Null,
          inFlight |-> FALSE, inMotion |-> FALSE,
          tContactStart |-> Null, tTakeoff |-> Null, tLanding |-> Null]

flightOkNoMin(tf) == tf <= maxFlight
flightOkExclusive(tf) == tf > minFlight /\ tf <= maxFlight
flightOk(tf) == tf >= minFlight /\ tf <= maxFlight

contactOk(tc) == tc >= minContact

\* _onMotion(e) on detector d: the detector afterwards and the events given to onJump
\* acc.x || 0 with the axis kept as it came
axisKept(v) == v

\* acc.x || 0
axisOr0(v) == IF v = Null THEN 0 ELSE v

\* [acc.x || 0, acc.y || 0, acc.z || 0]
vecOf(acc) == <<axisOr0(acc[1]), axisOr0(acc[2]), axisOr0(acc[3])>>

\* is e one of the anomalies: no acceleration object, or an axis missing
Anomalous(acc) == acc = NoAcc \/ \E i \in 1..3 : acc[i] = Null

\* lines 165-169 with the marker rewritten by every sample with motion
contactStartAlways(f, hasMotion, t) ==
    IF hasMotion
    THEN [f EXCEPT !.inMotion = TRUE, !.tContactStart = t]
    ELSE f

\* lines 165-169: the first sample with motion starts the contact
contactStart(f, hasMotion, t) ==
    IF hasMotion /\ ~f.inMotion
    THEN [f EXCEPT !.inMotion = TRUE, !.tContactStart = t]
    ELSE f

\* lines 171-179 without the fallback window
takeoffNoBackfill(c, t) ==
    [c EXCEPT !.inFlight = TRUE, !.tTakeoff = t]

\* lines 171-179 with the contact start always taken from the fallback window
takeoffAlwaysBackfill(c, t) ==
    [c EXCEPT !.inFlight = TRUE, !.tTakeoff = t,
              !.tContactStart = Max(0, t - FallbackWindow)]

\* lines 171-179: takeoff, with the fallback contact start if none is marked
takeoff(c, t) ==
    [c EXCEPT !.inFlight = TRUE, !.tTakeoff = t,
              !.tContactStart = IF c.tContactStart = Null
                                THEN Max(0, t - FallbackWindow)
                                ELSE c.tContactStart]

\* lines 184-186 and 208-211 left out: the detector stays in flight
landedStillInFlight(f) == f

\* lines 184-186 and 208-211 with the contact marker kept
landedKeepContact(f) ==
    [f EXCEPT !.inFlight = FALSE, !.inMotion = FALSE,
              !.tTakeoff = Null, !.tLanding = Null]

\* lines 184-186 and 208-211: the flags and markers after a landing
landed(f) ==
    [f EXCEPT !.inFlight = FALSE, !.inMotion = FALSE,
              !.tContactStart = Null, !.tTakeoff = Null, !.tLanding = Null]

\* the sample after if (!acc) return
onSample(d, e) ==
    LET t == e.timeStamp
        aVec == vecOf(e.acc)
        aVertInc == dot(aVec, d.gUnit) \div UnitScale
        aVert == aVertInc - d.g0
        aTot == norm(aVec)
        aVertEma == Ema(aVert, d.aVertEma)
        aTotEma == Ema(aTot, d.aTotEma)
        isFlight == IsFlight(aTotEma, aVertEma, d.g0)
        hasMotion == HasMotion(aVertEma)
        f == [d EXCEPT !.aVertEma = aVertEma, !.aTotEma = aTotEma, !.lastTs = t]
    IN  IF ~d.inFlight
        THEN LET c == contactStart(f, hasMotion, t)
             IN  IF isFlight
                 THEN [det |-> takeoff(c, t), evts |-> <<>>]
                 ELSE [det |-> c, evts |-> <<>>]
        ELSE IF ~isFlight
             THEN LET tLanding == t
                      tf == tLanding - d.tTakeoff
                      tc == d.tTakeoff - (IF d.tContactStart = Null
                                          THEN d.tTakeoff ELSE d.tContactStart)
                      evt == [tContactStart |-> d.tContactStart,
                              tTakeoff |-> d.tTakeoff,
                              tLanding |-> tLanding]
                  IN  [det |-> landed(f),
                       evts |-> IF flightOk(tf) /\ contactOk(tc)
                                THEN <<evt>> ELSE <<>>]
             ELSE [det |-> f, evts |-> <<>>]

onMotion(d, e) ==
    IF e.acc = NoAcc THEN [det |-> d, evts |-> <<>>] ELSE onSample(d, e)

\* the detector d and the events it has emitted after _onMotion on each of
\* the first i samples {t, a} of a list
RECURSIVE liveAfter(_, _, _)
liveAfter(samples, i, d) ==
    IF i = 0 THEN [det |-> d, evts |-> <<>>]
    ELSE LET prev == liveAfter(samples, i - 1, d)
             r == onMotion(prev.det, [timeStamp |-> samples[i].t, acc |-> samples[i].a])
         IN  [det |-> r.det, evts |-> prev.evts \o r.evts]

\* new JumpEventDetector(opts), start(), and the samples dispatched to it
liveEvents(samples, opts) ==
    liveAfter(samples, Len(samples),
              [JumpEventDetector(opts) EXCEPT !.running = TRUE]).evts

\* history: is the marker, after a step, one that a stop() has seen pending
StaleAfter(before, after, was) == after # Null /\ before # Null /\ was

NoOp == [op |-> "init", pre |-> NoDetector, preJumps |-> 0, raw |-> AccZero,
         absorbed |-> FALSE]

\* the modes in which a JumpEventDetector is in use
LiveModes == {"live", "throwing"}

\* G_STD in mm/s^2
G_STD == 9807

\* a timestamp as an operand of -: null counts as 0
numOf(t) == IF t = Null THEN 0 ELSE t

\* computeMetrics with the height of a fall of tf, g tf^2 / 2
computeMetricsFall(evt, g) ==
    LET tf == numOf(evt.tLanding) - numOf(evt.tTakeoff)
        h == (g * tf * tf) \div 2
        tc == numOf(evt.tTakeoff) - numOf(evt.tContactStart)
    IN  [tf |-> tf, h |-> h, tc |-> tc,
         rsi |-> IF tc = 0 THEN NaN
                 ELSE IF tc < 0 THEN 0 - (h \div (0 - tc))
                 ELSE h \div tc]

\* static computeMetrics(evt, g = G_STD), in the units of JumpMetrics.js below;
\* a division by 0 (Infinity or NaN) is NaN here
computeMetrics(evt, g) ==
    LET tf == numOf(evt.tLanding) - numOf(evt.tTakeoff)
        h == (g * tf * tf) \div 8
        tc == numOf(evt.tTakeoff) - numOf(evt.tContactStart)
    IN  [tf |-> tf, h |-> h, tc |-> tc,
         rsi |-> IF tc = 0 THEN NaN
                 ELSE IF tc < 0 THEN 0 - (h \div (0 - tc))
                 ELSE h \div tc]

\* start() on detector d, registered telling whether _handler is a devicemotion
\* listener: the detector and the registration afterwards
startDetector(d, registered) ==
    IF d.running THEN [det |-> d, registered |-> registered]
    ELSE [det |-> [d EXCEPT !.running = TRUE], registered |-> TRUE]

\* stop() that clears _running and leaves the listener
stopKeepsListener(d, registered) ==
    [det |-> [d EXCEPT !.running = FALSE], registered |-> registered]

\* stop()
stopDetector(d, registered) ==
    IF ~d.running THEN [det |-> d, registered |-> registered]
    ELSE [det |-> [d EXCEPT !.running = FALSE], registered |-> FALSE]

\* a call of start()
Start ==
    /\ mode \in LiveModes /\ det.constructed
    /\ det' = startDetector(det, listening).det
    /\ listening' = startDetector(det, listening).registered
    /\ last' = [op |-> "start", pre |-> det, preJumps |-> Len(jumps),
                raw |-> AccZero, absorbed |-> last.absorbed]
    /\ UNCHANGED <<mode, pageVars, formulaVars, callbackVars, chartVars, calibVars, metricVars,
                   streamVars, jumps, stale, permissionGranted, capturing,
                   motionData, analysis, sinceStart>>

\* a call of stop()
Stop ==
    /\ mode \in LiveModes /\ det.constructed
    /\ det' = stopDetector(det, listening).det
    /\ listening' = stopDetector(det, listening).registered
    /\ stale' = IF det.running
                THEN [stale EXCEPT !.contact = det.tContactStart # Null,
                                   !.takeoff = det.tTakeoff # Null]
                ELSE stale
    /\ last' = [op |-> "stop", pre |-> det, preJumps |-> Len(jumps),
                raw |-> AccZero, absorbed |-> last.absorbed]
    /\ UNCHANGED <<mode, pageVars, formulaVars, callbackVars, chartVars, calibVars, metricVars,
                   streamVars, jumps, permissionGranted, capturing, motionData,
                   analysis, sinceStart>>

\* a devicemotion event reaches the registered handler _onMotion
OnMotion ==
    /\ mode = "live" /\ det.constructed /\ listening
    /\ \E o \in Offered :
         LET e == [timeStamp |-> now + o.dt, acc |-> o.acc]
             r == onMotion(det, e)
         IN  /\ now' = now + o.dt
             /\ nSamples' = nSamples + 1
             /\ feed' = FeedAfter
             /\ det' = r.det
             /\ jumps' = jumps \o r.evts
             /\ stale' = [contact |-> StaleAfter(det.tContactStart,
                                                 r.det.tContactStart, stale.contact),
                          takeoff |-> StaleAfter(det.tTakeoff,
                                                 r.det.tTakeoff, stale.takeoff),
                          jumps |-> IF r.evts = <<>> THEN stale.jumps
                                    ELSE Append(stale.jumps,
                                                [contact |-> stale.contact,
                                                 takeoff |-> stale.takeoff])]
             /\ last' = [op |-> "motion", pre |-> det, preJumps |-> Len(jumps),
                         raw |-> o.acc,
                         absorbed |-> (last.absorbed \/ Anomalous(o.acc))]
    /\ UNCHANGED <<mode, pageVars, formulaVars, callbackVars, chartVars, calibVars, metricVars, batchVars>>

\* lines 184-206 when this.onJump(evt, metrics) throws: the landing is marked,
\* and the exception leaves _onMotion before lines 208-211 and 215
thrown(d, r, t) ==
    [r.det EXCEPT !.lastTs = d.lastTs,
                  !.tContactStart = d.tContactStart,
                  !.tTakeoff = d.tTakeoff,
                  !.tLanding = t]

\* a devicemotion event reaches _onMotion of a detector whose onJump callback
\* may throw
OnMotionThrows ==
    /\ mode = "throwing" /\ det.constructed /\ listening
    /\ \E o \in Offered, throws \in BOOLEAN :
         LET e == [timeStamp |-> now + o.dt, acc |-> o.acc]
             r == onMotion(det, e)
             fails == throws /\ r.evts # <<>>
         IN  /\ now' = now + o.dt
             /\ nSamples' = nSamples + 1
             /\ feed' = FeedAfter
             /\ det' = IF fails THEN thrown(det, r, e.timeStamp) ELSE r.det
             /\ jumps' = jumps \o r.evts
             /\ failed' = IF fails THEN failed \cup {Len(jumps) + 1} ELSE failed
             /\ last' = [op |-> "motion", pre |-> det, preJumps |-> Len(jumps),
                         raw |-> o.acc, absorbed |-> last.absorbed,
                         threw |-> fails]
    /\ UNCHANGED <<mode, pageVars, formulaVars, calibVars, metricVars, batchVars,
                   stale, chartVars>>

(***************************************************************************)
(* JumpMetrics.js.  A function that throws returns Threw.  Heights are in  *)
(* units of 1e-7 m (G0 in mm/s^2, times in ticks), rsi in 1e-5 m/s,        *)
(* cadence in jumps per minute scaled by CadenceScale.                     *)
(***************************************************************************)
Threw == 0 - 2000000
G0 == 9807
TicksPerMinute == 6000
CadenceScale == 100

IsNumber(x) == x # Null

\* lines 32-39 with tf >= 0 accepted
flightTimeNonNegative(evt) ==
    IF ~(IsNumber(evt.tTakeoff) /\ IsNumber(evt.tLanding)) THEN Threw
    ELSE LET tf == evt.tLanding - evt.tTakeoff
         IN  IF ~(tf >= 0) THEN Threw ELSE tf

flightTime(evt) ==
    IF ~(IsNumber(evt.tTakeoff) /\ IsNumber(evt.tLanding)) THEN Threw
    ELSE LET tf == evt.tLanding - evt.tTakeoff
         IN  IF ~(tf > 0) THEN Threw ELSE tf

\* lines 50-53 with the height linear in the flight time
heightLinear(tFlight, g) ==
    IF ~(tFlight > 0) THEN Threw
    ELSE (g * tFlight) \div 8

heightFromFlightTime(tFlight, g) ==
    IF ~(tFlight > 0) THEN Threw
    ELSE (g * tFlight * tFlight) \div 8

contactTime(evt) ==
    IF ~(IsNumber(evt.tContactStart) /\ IsNumber(evt.tTakeoff)) THEN Threw
    ELSE LET tc == evt.tTakeoff - evt.tContactStart
         IN  IF ~(tc > 0) THEN Threw ELSE tc

\* lines 81-85 without the height check
rsiAnyHeight(heightMeters, tContact) ==
    IF ~(tContact > 0) THEN Threw
    ELSE heightMeters \div tContact

rsi(heightMeters, tContact) ==
    IF ~(heightMeters >= 0) THEN Threw
    ELSE IF ~(tContact > 0) THEN Threw
    ELSE heightMeters \div tContact

\* one pass of the loop body: the item of evt, or the throw that ends the loop
jumpItem(evt, g) ==
    LET tf == flightTime(evt)
        h == heightFromFlightTime(tf, g)
        tc == contactTime(evt)
        r == rsi(h, tc)
    IN  IF tf = Threw \/ h = Threw \/ tc = Threw \/ r = Threw
        THEN [ok |-> FALSE]
        ELSE [ok |-> TRUE, tf |-> tf, h |-> h, tc |-> tc, rsi |-> r, evt |-> evt]

RECURSIVE MinOf(_, _)
MinOf(seq, i) ==
    IF i = Len(seq) THEN seq[i]
    ELSE LET m == MinOf(seq, i + 1) IN IF seq[i] < m THEN seq[i] ELSE m

RECURSIVE MaxOf(_, _)
MaxOf(seq, i) ==
    IF i = Len(seq) THEN seq[i]
    ELSE LET m == MaxOf(seq, i + 1) IN IF seq[i] > m THEN seq[i] ELSE m

durationFirstContact(events) ==
    Max(0, MaxOf([i \in 1..Len(events) |-> events[i].tLanding], 1)
           - events[1].tContactStart)

\* Math.max(0, end - start) over a non-empty list
duration(events) ==
    LET start == MinOf([i \in 1..Len(events) |-> events[i].tContactStart], 1)
        end == MaxOf([i \in 1..Len(events) |-> events[i].tLanding], 1)
    IN  Max(0, end - start)

\* the items of the events from the i-th on that the loop body does not throw on
RECURSIVE okItems(_, _, _)
okItems(events, i, g) ==
    IF i > Len(events) THEN <<>>
    ELSE (IF jumpItem(events[i], g).ok THEN <<jumpItem(events[i], g)>> ELSE <<>>)
         \o okItems(events, i + 1, g)

\* lines 104-122 with the events the loop body throws on skipped
summarizeSeriesSkipping(events, g) ==
    LET items == okItems(events, 1, g)
        count == Len(items)
        dur == IF Len(events) > 0 THEN duration(events) ELSE 0
        cadence == IF dur > 0
                   THEN (count * TicksPerMinute * CadenceScale) \div dur
                   ELSE 0
    IN  [threw |-> FALSE, items |-> items, count |-> count,
         duration |-> dur, cadence |-> cadence]

summarizeSeries(events, g) ==
    LET items == [i \in 1..Len(events) |-> jumpItem(events[i], g)]
    IN  IF \E i \in 1..Len(events) : ~items[i].ok
        THEN [threw |-> TRUE]
        ELSE LET count == Len(items)
                 dur == IF count > 0 THEN duration(events) ELSE 0
                 cadence == IF dur > 0
                            THEN (count * TicksPerMinute * CadenceScale) \div dur
                            ELSE 0
             IN  [threw |-> FALSE, items |-> items, count |-> count,
                  duration |-> dur, cadence |-> cadence]

(***************************************************************************)
(* js/jumpApp.js: the batch detector                                       *)
(***************************************************************************)
RECURSIVE SumVec(_, _)
SumVec(samples, i) ==
    IF i > Len(samples) THEN <<0, 0, 0>>
    ELSE LET r == SumVec(samples, i + 1)
             v == samples[i].a
         IN  <<v[1] + r[1], v[2] + r[2], v[3] + r[3]>>

InWindow(s, t0, calibMs) == s.t - t0 <= calibMs

\* lines 39-48: the gravity estimate of a non-empty sample list
gravityOf(samples, calibMs) ==
    LET t0 == samples[1].t
        calib == SelectSeq(samples, LAMBDA s : InWindow(s, t0, calibMs))
        n == Len(calib)
        gSum == SumVec(calib, 1)
        gMean == <<gSum[1] \div n, gSum[2] \div n, gSum[3] \div n>>
        g0 == norm(gMean)
        gUnit == IF g0 = 0 THEN <<NaN, NaN, NaN>>
                 ELSE <<(gMean[1] * UnitScale) \div g0,
                        (gMean[2] * UnitScale) \div g0,
                        (gMean[3] * UnitScale) \div g0>>
    IN  [n |-> n, g0 |-> g0, gUnit |-> gUnit]

batchValidNoContact(tf, tc) == tf >= minFlight /\ tf <= maxFlight
batchValid(tf, tc) == tf >= minFlight /\ tf <= maxFlight /\ tc >= minContact

\* lines 59-96: one pass of the loop, on loop state st and sample s
loopBody(st, s, t0, g0, gUnit) ==
    LET t == s.t - t0
        aVec == s.a
        aVertInc == IF gUnit[1] = NaN THEN NaN ELSE dot(aVec, gUnit) \div UnitScale
        aVert == IF aVertInc = NaN THEN NaN ELSE aVertInc - g0
        aTot == norm(aVec)
        aVertEma == Ema(aVert, st.aVertEma)
        aTotEma == Ema(aTot, st.aTotEma)
        isFlight == IsFlight(aTotEma, aVertEma, g0)
        hasMotion == HasMotion(aVertEma)
        f == [st EXCEPT !.aVertEma = aVertEma, !.aTotEma = aTotEma]
    IN  IF ~st.inFlight
        THEN LET c == IF hasMotion /\ ~st.inMotion
                      THEN [f EXCEPT !.inMotion = TRUE, !.tContactStart = t]
                      ELSE f
             IN  IF isFlight
                 THEN [c EXCEPT !.inFlight = TRUE, !.tTakeoff = t,
                                !.tContactStart =
                                    IF c.tContactStart = Null
                                    THEN Max(0, t - FallbackWindow)
                                    ELSE c.tContactStart]
                 ELSE c
        ELSE IF ~isFlight
             THEN LET tLanding == t
                      tf == tLanding - st.tTakeoff
                      tc == st.tTakeoff - (IF st.tContactStart = Null
                                           THEN st.tTakeoff ELSE st.tContactStart)
                      evt == [tContactStart |-> st.tContactStart,
                              tTakeoff |-> st.tTakeoff,
                              tLanding |-> tLanding]
                  IN  [f EXCEPT !.inFlight = FALSE, !.inMotion = FALSE,
                                !.tContactStart = Null, !.tTakeoff = Null,
                                !.events = IF batchValid(tf, tc)
                                           THEN Append(@, evt) ELSE @]
             ELSE f

\* lines 50-56: the loop state before the first sample
loopInit(g0) ==
    [aVertEma |-> 0, aTotEma |-> g0, inFlight |-> FALSE, inMotion |-> FALSE,
     tContactStart |-> Null, tTakeoff |-> Null, events |-> <<>>]

\* the loop state after the first i samples
RECURSIVE loopAfter(_, _, _)
loopAfter(samples, i, g) ==
    IF i = 0 THEN loopInit(g.g0)
    ELSE loopBody(loopAfter(samples, i - 1, g), samples[i], samples[1].t,
                  g.g0, g.gUnit)

\* the loop states of detectJumpEvents(samples): before the first sample and
\* after each one
RECURSIVE loopPasses(_, _, _)
loopPasses(samples, i, g) ==
    IF i = 0 THEN <<loopInit(g.g0)>>
    ELSE LET prev == loopPasses(samples, i - 1, g)
         IN  Append(prev, loopBody(prev[i], samples[i], samples[1].t, g.g0, g.gUnit))

\* history: the passes and the gravity estimate of the call stopCapture made
passesOf(samples) ==
    IF samples = <<>> THEN [g0 |-> 0, gUnit |-> AccZero, states |-> <<>>]
    ELSE LET g == gravityOf(samples, calibMsDefault)
         IN  [g0 |-> g.g0, gUnit |-> g.gUnit,
              states |-> loopPasses(samples, Len(samples), g)]

detectJumpEvents(samples) ==
    IF samples = <<>> THEN <<>>
    ELSE loopAfter(samples, Len(samples), gravityOf(samples, calibMsDefault)).events

analyzeJumps(data) ==
    LET events == detectJumpEvents(data)
    IN  IF events = <<>>
        THEN [status |-> "noJumps", events |-> events]
        ELSE IF \E i \in 1..Len(events) : ~jumpItem(events[i], G0).ok
        THEN [status |-> "threw", events |-> events]
        ELSE LET summary == summarizeSeries(events, G0)
             IN  IF summary.threw
                 THEN [status |-> "threw", events |-> events]
                 ELSE [status |-> "ok", events |-> events,
                       items |-> summary.items, summary |-> summary]

(***************************************************************************)
(* js/jumpApp.js: the capture controller                                   *)
(***************************************************************************)
\* requestPermission(): the platform grants or denies
RequestPermission ==
    /\ mode = "batch"
    /\ \E res \in {"granted", "denied"} :
         permissionGranted' = (permissionGranted \/ res = "granted")
    /\ last' = [op |-> "requestPermission", pre |-> NoDetector, preJumps |-> Len(jumps),
                raw |-> AccZero, absorbed |-> last.absorbed]
    /\ UNCHANGED <<mode, pageVars, formulaVars, callbackVars, chartVars, calibVars, metricVars, streamVars, liveVars, capturing, listening,
                   motionData, analysis, sinceStart>>

\* startCapture() that keeps the samples of the capture before
startCaptureKeepData ==
    /\ listening' = TRUE
    /\ capturing' = TRUE
    /\ UNCHANGED <<analysis, motionData>>

\* startCapture()
startCapture ==
    /\ motionData' = <<>>
    /\ listening' = TRUE
    /\ capturing' = TRUE
    /\ UNCHANGED analysis

\* stopCapture()
stopCapture ==
    /\ listening' = FALSE
    /\ capturing' = FALSE
    /\ analysis' = analyzeJumps(motionData)
    /\ UNCHANGED motionData

\* onDoubleTap() that goes on without the permission
proceedsAlways(granted) == TRUE

\* line 195: if (!permissionGranted) return;
proceeds(granted) == granted

\* onDoubleTap(), the callback of the double-tap trigger
OnDoubleTap ==
    /\ mode = "batch"
    /\ IF ~proceeds(permissionGranted)
       THEN /\ UNCHANGED <<capturing, listening, motionData, analysis, sinceStart>>
            /\ last' = [op |-> "onDoubleTap", pre |-> NoDetector,
                        preJumps |-> Len(jumps), raw |-> AccZero,
                        absorbed |-> last.absorbed]
       ELSE /\ IF ~capturing THEN startCapture ELSE stopCapture
            /\ last' = [op |-> IF ~capturing THEN "startCapture" ELSE "stopCapture",
                        pre |-> NoDetector, preJumps |-> Len(jumps),
                        raw |-> AccZero, absorbed |-> last.absorbed,
                        passes |-> IF capturing THEN passesOf(motionData)
                                   ELSE passesOf(<<>>)]
            /\ sinceStart' = IF ~capturing THEN <<>> ELSE sinceStart
    /\ UNCHANGED <<mode, pageVars, formulaVars, callbackVars, chartVars, calibVars, metricVars, streamVars, liveVars, permissionGranted>>

\* lines 159-161: ev.accelerationIncludingGravity?.x || 0, and so for y and z
recorded(acc) == IF acc = NoAcc THEN <<0, 0, 0>> ELSE vecOf(acc)

\* a devicemotion event reaches the registered handler handleMotion
HandleMotion ==
    /\ mode = "batch"
    /\ listening
    /\ \E o \in Offered :
         /\ now' = now + o.dt
         /\ nSamples' = nSamples + 1
         /\ feed' = FeedAfter
         /\ motionData' = Append(motionData, [t |-> now + o.dt, a |-> recorded(o.acc)])
         /\ sinceStart' = Append(sinceStart, [t |-> now + o.dt, a |-> recorded(o.acc)])
         /\ last' = [op |-> "handleMotion", pre |-> NoDetector,
                     preJumps |-> Len(jumps), raw |-> o.acc,
                     absorbed |-> last.absorbed]
    /\ UNCHANGED <<mode, pageVars, formulaVars, callbackVars, chartVars, calibVars, metricVars, liveVars, permissionGranted, capturing, listening, analysis>>

(***************************************************************************)
(* JumpEventDetector.calibrate()                                           *)
(***************************************************************************)
calibrateMsDefault == 200
CalibClockStep == calibrateMsDefault \div 2
AccBig == <<1200, 1600, 0>>
CalibAccSet == {AccZero, AccBig}

\* firstStamp and lastStamp are history: e.timeStamp of the first and of the
\* latest event the listener received (the code reads neither)
\* registered tells whether onCalib is a devicemotion listener
NoCalib == [status |-> "idle", t0 |-> 0, samples |-> <<>>,
            g0 |-> 0, gUnit |-> AccZero, error |-> "none",
            firstStamp |-> Null, lastStamp |-> Null, registered |-> FALSE]

\* how long before its delivery an event may have been stamped
CalibLags == {0, CalibClockStep}

\* the sum of one axis of the samples from the i-th on
RECURSIVE SumAxis(_, _, _)
SumAxis(samples, i, k) ==
    IF i > Len(samples) THEN 0
    ELSE samples[i][k] + SumAxis(samples, i + 1, k)

\* samples.reduce((s, v) => add(s, v), [0, 0, 0]) from the i-th sample on
SumAcc(samples, i) ==
    <<SumAxis(samples, i, 1), SumAxis(samples, i, 2), SumAxis(samples, i, 3)>>

\* scale(a, 1 / k)
scaleDown(a, k) == <<a[1] \div k, a[2] \div k, a[3] \div k>>

\* lines 254-268 with the plausibility check made before the count check
settleGravityFirst(c) ==
    LET n == Len(c.samples)
        mean == IF n = 0 THEN AccZero ELSE scaleDown(SumAcc(c.samples, 1), n)
        g0 == norm(mean)
    IN  IF g0 < 500 \/ g0 > 1500
        THEN [c EXCEPT !.status = "rejected", !.error = "implausible"]
        ELSE IF n < 10
        THEN [c EXCEPT !.status = "rejected", !.error = "insufficient"]
        ELSE [c EXCEPT !.status = "resolved", !.g0 = g0,
                       !.gUnit = scaleDown(<<mean[1] * UnitScale,
                                             mean[2] * UnitScale,
                                             mean[3] * UnitScale>>, g0)]

\* lines 254-268: the promise is settled from the samples collected
settle(c) ==
    IF Len(c.samples) < 10
    THEN [c EXCEPT !.status = "rejected", !.error = "insufficient"]
    ELSE LET sum == SumAcc(c.samples, 1)
             mean == scaleDown(sum, Len(c.samples))
             g0 == norm(mean)
         IN  IF g0 < 500 \/ g0 > 1500
             THEN [c EXCEPT !.status = "rejected", !.error = "implausible"]
             ELSE [c EXCEPT !.status = "resolved", !.g0 = g0,
                            !.gUnit = scaleDown(<<mean[1] * UnitScale,
                                                  mean[2] * UnitScale,
                                                  mean[3] * UnitScale>>, g0)]

\* line 251 left out: onCalib stays a listener
keepListener(c) == c

\* line 251: window.removeEventListener('devicemotion', onCalib)
removeListener(c) == [c EXCEPT !.registered = FALSE]

\* lines 250-269 once the window has elapsed; resolve and reject have no
\* effect on a promise that is settled
elapsed(c) ==
    IF c.status = "listening" THEN settle(removeListener(c)) ELSE removeListener(c)

\* the modes in which calibrate() is called: with readings of free fall and of
\* a hard push, or with readings at rest
CalibModes == {"calibration", "atRest"}
CalibOffered ==
    IF mode = "calibration" THEN CalibAccSet \cup {NoAcc} ELSE {AccRest, NoAcc}

\* calibrate(): permission is asked for, then the listener is registered
Calibrate ==
    /\ mode \in CalibModes
    /\ calibration.status = "idle"
    /\ \E granted \in BOOLEAN :
         calibration' = IF granted
                  THEN [calibration EXCEPT !.status = "listening", !.t0 = perfNow,
                                     !.samples = <<>>, !.registered = TRUE]
                  ELSE [calibration EXCEPT !.status = "rejected", !.error = "permission"]
    /\ UNCHANGED <<mode, pageVars, formulaVars, callbackVars, chartVars, streamVars, liveVars, last, batchVars, perfNow, metricVars>>

\* time passes
ClockTick ==
    /\ mode \in CalibModes
    /\ perfNow < MaxClock
    /\ perfNow' = perfNow + CalibClockStep
    /\ UNCHANGED <<mode, pageVars, formulaVars, callbackVars, chartVars, streamVars, liveVars, last, batchVars, calibration, metricVars>>

\* onCalib(e): a devicemotion event with a reading, stamped when it was produced,
\* reaches the calibration listener
OnCalib ==
    /\ mode \in CalibModes
    /\ calibration.registered
    /\ \/ Len(calibration.samples) < MaxCalibSamples
       \/ perfNow - calibration.t0 >= calibrateMsDefault
    /\ \E acc \in CalibOffered, lag \in CalibLags :
         LET timeStamp == perfNow - lag
             c == [calibration EXCEPT !.samples = Append(@, acc),
                                      !.firstStamp = IF @ = Null THEN timeStamp ELSE @,
                                      !.lastStamp = timeStamp]
         IN  /\ timeStamp >= Max(0, calibration.lastStamp)
             /\ calibration' = IF acc = NoAcc THEN calibration
                               ELSE IF perfNow - calibration.t0 >= calibrateMsDefault
                               THEN elapsed(c)
                               ELSE c
    /\ UNCHANGED <<mode, pageVars, formulaVars, callbackVars, chartVars, streamVars, liveVars, last, batchVars, perfNow, metricVars>>

(***************************************************************************)
(* JumpMetrics.js applied to event lists                                   *)
(***************************************************************************)
MetricTimes == {0, 10, 25, 40, 100}

MetricEvents ==
    {e \in [tContactStart : MetricTimes, tTakeoff : MetricTimes,
            tLanding : MetricTimes] :
        e.tContactStart <= e.tTakeoff /\ e.tTakeoff <= e.tLanding}

EventLists == UNION {[1..n -> MetricEvents] : n \in 0..MaxEvents}

NoSummary == [computed |-> FALSE]

\* summarizeSeries(mEvents) is called
Summarize ==
    /\ mode = "metrics"
    /\ ~seriesSummary.computed
    /\ seriesSummary' = [computed |-> TRUE, result |-> summarizeSeries(mEvents, G0)]
    /\ UNCHANGED <<mode, pageVars, formulaVars, callbackVars, chartVars, streamVars, liveVars, last, batchVars, calibVars, mEvents>>

(***************************************************************************)
(* JumpMetrics.js: calls of flightTime, contactTime, heightFromFlightTime  *)
(* and rsi.  A call of the last two carries two values of the argument the *)
(* result is monotonic in, and returns both results.                       *)
(***************************************************************************)
TimeOrNull == MetricTimes \cup {Null}
AnyEvents == [tContactStart : TimeOrNull, tTakeoff : TimeOrNull, tLanding : TimeOrNull]
FlightInputs == {0 - 10, 0, 1, 10, 30, 120}
GSet == {0 - G0, 0, 1620, G0}
HeightInputs == {0 - 1, 0, 12259, 1103287}
ContactInputs == {0 - 8, 0, 8, 10, 25}

NoCall == [fn |-> "none"]
NoRet == [done |-> FALSE]

Calls ==
    [fn : {"flightTime", "contactTime"}, evt : AnyEvents]
    \cup [fn : {"heightFromFlightTime"}, t1 : FlightInputs, t2 : FlightInputs, g : GSet]
    \cup [fn : {"rsi"}, h : HeightInputs, tc1 : ContactInputs, tc2 : ContactInputs]

CallFlightTime ==
    /\ mode = "formulas" /\ call.fn = "flightTime" /\ ~ret.done
    /\ ret' = [done |-> TRUE, out |-> flightTime(call.evt)]
    /\ UNCHANGED <<mode, pageVars, streamVars, liveVars, last, batchVars, calibVars, metricVars, callbackVars, chartVars, call>>

CallContactTime ==
    /\ mode = "formulas" /\ call.fn = "contactTime" /\ ~ret.done
    /\ ret' = [done |-> TRUE, out |-> contactTime(call.evt)]
    /\ UNCHANGED <<mode, pageVars, streamVars, liveVars, last, batchVars, calibVars, metricVars, callbackVars, chartVars, call>>

CallHeight ==
    /\ mode = "formulas" /\ call.fn = "heightFromFlightTime" /\ ~ret.done
    /\ ret' = [done |-> TRUE, out |-> heightFromFlightTime(call.t1, call.g),
               out2 |-> heightFromFlightTime(call.t2, call.g)]
    /\ UNCHANGED <<mode, pageVars, streamVars, liveVars, last, batchVars, calibVars, metricVars, callbackVars, chartVars, call>>

CallRsi ==
    /\ mode = "formulas" /\ call.fn = "rsi" /\ ~ret.done
    /\ ret' = [done |-> TRUE, out |-> rsi(call.h, call.tc1),
               out2 |-> rsi(call.h, call.tc2)]
    /\ UNCHANGED <<mode, pageVars, streamVars, liveVars, last, batchVars, calibVars, metricVars, callbackVars, chartVars, call>>

(***************************************************************************)
(* createDoubleTapTrigger (part_004 lines 146-191).  The callback is the   *)
(* caller's; the history tapLog records, for every accepted tap, its       *)
(* timestamp and whether the callback was invoked on it.                   *)
(***************************************************************************)
\* settings.js, in ticks
TAP_WINDOW == 40
TAP_COOLDOWN == 300
\* the default of the thresholdMs parameter
thresholdMs == 40

\* time between two DOM events, and the pointerType of a pointerup ("" if absent)
TapDts == {10, 40, 50, 300}
PointerTypes == {"touch", "mouse", ""}

\* lines 157-162 and 168-173: the tap at timestamp ts, with the pending first
\* tap at lastTs, under window w
tapWithin(ts, lastTs, w) ==
    IF ts - lastTs <= w
    THEN [lastTapTs |-> 0, fired |-> TRUE]
    ELSE [lastTapTs |-> ts, fired |-> FALSE]

\* the handler body after the pointerType filter
Tap(ts) ==
    LET r == tapWithin(ts, lastTapTs, thresholdMs)
    IN  /\ lastTapTs' = r.lastTapTs
        /\ tapLog' = Append(tapLog, [t |-> ts, fired |-> r.fired])

\* handlerPointer(ev), registered for pointerup
HandlerPointer ==
    /\ mode = "taps" /\ trigger = "pointerup"
    /\ nSamples < MaxTaps
    /\ \E dt \in TapDts, pointerType \in PointerTypes :
         LET ev == [timeStamp |-> now + dt, pointerType |-> pointerType]
         IN  /\ now' = ev.timeStamp
             /\ nSamples' = nSamples + 1
             /\ IF ev.pointerType # "" /\ ev.pointerType # "touch"
                THEN UNCHANGED <<lastTapTs, tapLog>>
                ELSE Tap(ev.timeStamp)
    /\ UNCHANGED <<mode, trigger, feed, liveVars, last, batchVars, calibVars,
                   metricVars, formulaVars, callbackVars, chartVars, sensorVars, resetShown, timerVars>>

\* handlerTouch(ev), registered for touchend where PointerEvent is missing
HandlerTouch ==
    /\ mode = "taps" /\ trigger = "touchend"
    /\ nSamples < MaxTaps
    /\ \E dt \in TapDts :
         LET ev == [timeStamp |-> now + dt]
         IN  /\ now' = ev.timeStamp
             /\ nSamples' = nSamples + 1
             /\ Tap(ev.timeStamp)
    /\ UNCHANGED <<mode, trigger, feed, liveVars, last, batchVars, calibVars,
                   metricVars, formulaVars, callbackVars, chartVars, sensorVars, resetShown, timerVars>>

\* the function createDoubleTapTrigger returns: removes the listener
Unsubscribe ==
    /\ mode = "taps" /\ trigger # "none"
    /\ trigger' = "none"
    /\ UNCHANGED <<mode, lastTapTs, tapLog, streamVars, liveVars, last, batchVars,
                   calibVars, metricVars, formulaVars, callbackVars, chartVars, sensorVars, resetShown,
                   timerVars>>

(***************************************************************************)
(* part_003: the capture controller that records through a                 *)
(* LinearAccelerationSensor where the platform has one.  Its batch         *)
(* detector is that of js/jumpApp.js with other default thresholds.  The   *)
(* display (countdown digits, beeps, chart) is left out.                   *)
(***************************************************************************)
\* part_003 lines 40-42 (part_002 lines 46-48 has the same)
PageThresholds == [flightEpsMag |-> 40, flightEpsVert |-> 50, moveThresh |-> 100]

\* part_003 lines 67-105: one pass of the loop under thresholds th
loopBodyWith(th, st, s, t0, g0, gUnit) ==
    LET t == s.t - t0
        aVec == s.a
        aVertInc == IF gUnit[1] = NaN THEN NaN ELSE dot(aVec, gUnit) \div UnitScale
        aVert == IF aVertInc = NaN THEN NaN ELSE aVertInc - g0
        aTot == norm(aVec)
        aVertEma == Ema(aVert, st.aVertEma)
        aTotEma == Ema(aTot, st.aTotEma)
        isFlight == /\ aTotEma # NaN /\ aVertEma # NaN
                    /\ Abs(aTotEma - g0) < th.flightEpsMag
                    /\ Abs(aVertEma) < th.flightEpsVert
        hasMotion == aVertEma # NaN /\ Abs(aVertEma) > th.moveThresh
        f == [st EXCEPT !.aVertEma = aVertEma, !.aTotEma = aTotEma]
    IN  IF ~st.inFlight
        THEN LET c == IF hasMotion /\ ~st.inMotion
                      THEN [f EXCEPT !.inMotion = TRUE, !.tContactStart = t]
                      ELSE f
             IN  IF isFlight
                 THEN [c EXCEPT !.inFlight = TRUE, !.tTakeoff = t,
                                !.tContactStart =
                                    IF c.tContactStart = Null
                                    THEN Max(0, t - FallbackWindow)
                                    ELSE c.tContactStart]
                 ELSE c
        ELSE IF ~isFlight
             THEN LET tLanding == t
                      tf == tLanding - st.tTakeoff
                      tc == st.tTakeoff - (IF st.tContactStart = Null
                                           THEN st.tTakeoff ELSE st.tContactStart)
                      evt == [tContactStart |-> st.tContactStart,
                              tTakeoff |-> st.tTakeoff,
                              tLanding |-> tLanding]
                  IN  [f EXCEPT !.inFlight = FALSE, !.inMotion = FALSE,
                                !.tContactStart = Null, !.tTakeoff = Null,
                                !.events = IF batchValid(tf, tc)
                                           THEN Append(@, evt) ELSE @]
             ELSE f

RECURSIVE loopAfterWith(_, _, _, _)
loopAfterWith(th, samples, i, g) ==
    IF i = 0 THEN loopInit(g.g0)
    ELSE loopBodyWith(th, loopAfterWith(th, samples, i - 1, g), samples[i],
                      samples[1].t, g.g0, g.gUnit)

\* part_003 detectJumpEvents(samples)
detectJumpEventsP3(samples) ==
    IF samples = <<>> THEN <<>>
    ELSE loopAfterWith(PageThresholds, samples, Len(samples),
                       gravityOf(samples, calibMsDefault)).events

\* part_003 analyzeJumps(): "ok" is renderResults having run to its end
analyzeJumpsP3(data) ==
    LET events == detectJumpEventsP3(data)
    IN  IF events = <<>>
        THEN [status |-> "noJumps", events |-> events]
        ELSE IF \E i \in 1..Len(events) : ~jumpItem(events[i], G0).ok
        THEN [status |-> "threw", events |-> events]
        ELSE IF summarizeSeries(events, G0).threw
        THEN [status |-> "threw", events |-> events]
        ELSE [status |-> "ok", events |-> events]

\* what the page shows after analyzeJumps(): renderResults appends the Reset
\* button, the message of an empty result replaces it, a throw leaves it
ResetAfter(result) ==
    IF result.status = "ok" THEN TRUE
    ELSE IF result.status = "noJumps" THEN FALSE
    ELSE resetShown

\* history: the operation done, and whether it appended to motionData
PageOp(op, raw, appended) ==
    [op |-> op, pre |-> NoDetector, preJumps |-> 0, raw |-> raw,
     absorbed |-> FALSE, appended |-> appended]

\* requestPermission() (part_003 lines 357-380): the platform grants or denies
RequestPermissionP3 ==
    /\ mode = "sensor"
    /\ \E res \in {"granted", "denied"} :
         permissionGranted' = (permissionGranted \/ res = "granted")
    /\ last' = PageOp("requestPermission", AccZero, FALSE)
    /\ UNCHANGED <<mode, streamVars, liveVars, capturing, listening, motionData,
                   analysis, sinceStart, calibVars, metricVars, formulaVars, callbackVars, chartVars,
                   tapVars, sensorVars, resetShown, timerVars>>

\* startCapture() (part_003 lines 312-325)
startCaptureP3 ==
    /\ motionData' = <<>>
    /\ IF hasSensorAPI
       THEN /\ accelSensor' = TRUE
            /\ sensors' = sensors + 1
            /\ UNCHANGED listening
       ELSE /\ listening' = TRUE
            /\ UNCHANGED <<accelSensor, sensors>>
    /\ capturing' = TRUE
    /\ UNCHANGED <<analysis, resetShown>>

\* stopCapture() (part_003 lines 327-341)
stopCaptureP3 ==
    /\ IF hasSensorAPI
       THEN /\ IF accelSensor
               THEN sensors' = sensors - 1 /\ accelSensor' = FALSE
               ELSE UNCHANGED <<accelSensor, sensors>>
            /\ UNCHANGED listening
       ELSE /\ listening' = FALSE
            /\ UNCHANGED <<accelSensor, sensors>>
    /\ capturing' = FALSE
    /\ analysis' = analyzeJumpsP3(motionData)
    /\ resetShown' = ResetAfter(analyzeJumpsP3(motionData))
    /\ UNCHANGED motionData

\* onDoubleTap() (part_003 lines 343-355), the callback of the double-tap trigger
OnDoubleTapP3 ==
    /\ mode = "sensor"
    /\ permissionGranted
    /\ IF ~capturing THEN startCaptureP3 ELSE stopCaptureP3
    /\ sinceStart' = IF ~capturing THEN <<>> ELSE sinceStart
    /\ last' = PageOp(IF ~capturing THEN "startCapture" ELSE "stopCapture",
                      AccZero, FALSE)
    /\ UNCHANGED <<mode, streamVars, liveVars, permissionGranted, hasSensorAPI,
                   calibVars, metricVars, formulaVars, callbackVars, chartVars, tapVars, timerVars>>

\* handleMotion(ev) (part_003 lines 281-290), while it is registered on window
HandleMotionP3 ==
    /\ mode = "sensor"
    /\ listening
    /\ \E o \in Offered :
         /\ now' = now + o.dt
         /\ nSamples' = nSamples + 1
         /\ feed' = FeedAfter
         /\ motionData' = Append(motionData, [t |-> now + o.dt, a |-> recorded(o.acc)])
         /\ sinceStart' = Append(sinceStart, [t |-> now + o.dt, a |-> recorded(o.acc)])
         /\ last' = PageOp("handleMotion", o.acc, TRUE)
    /\ UNCHANGED <<mode, liveVars, permissionGranted, capturing, listening, analysis,
                   calibVars, metricVars, formulaVars, callbackVars, chartVars, tapVars, sensorVars,
                   resetShown, timerVars>>

\* handleSensorReading() (part_003 lines 292-301), the reading event of a
\* started sensor; it reads the axes of the sensor the global holds
HandleSensorReadingP3 ==
    /\ mode = "sensor"
    /\ sensors > 0
    /\ \E o \in Offered :
         LET a == IF accelSensor THEN recorded(o.acc) ELSE AccZero
         IN  /\ now' = now + o.dt
             /\ nSamples' = nSamples + 1
             /\ feed' = FeedAfter
             /\ motionData' = Append(motionData, [t |-> now + o.dt, a |-> a])
             /\ sinceStart' = Append(sinceStart, [t |-> now + o.dt, a |-> a])
             /\ last' = PageOp("handleSensorReading", o.acc, TRUE)
    /\ UNCHANGED <<mode, liveVars, permissionGranted, capturing, listening, analysis,
                   calibVars, metricVars, formulaVars, callbackVars, chartVars, tapVars, sensorVars,
                   resetShown, timerVars>>

\* resetApp() (part_003 lines 215-230), the click handler of the Reset button
ResetAppP3 ==
    /\ mode = "sensor"
    /\ resetShown
    /\ motionData' = <<>>
    /\ capturing' = FALSE
    /\ resetShown' = FALSE
    /\ analysis' = [status |-> "none"]
    /\ last' = PageOp("resetApp", AccZero, FALSE)
    /\ UNCHANGED <<mode, streamVars, liveVars, permissionGranted, listening,
                   sinceStart, calibVars, metricVars, formulaVars, callbackVars, chartVars, tapVars,
                   sensorVars, timerVars>>

(***************************************************************************)
(* part_002: the capture controller that detects the double tap in the     *)
(* devicemotion stream and starts a capture at the end of a countdown.     *)
(* Its batch detector is that of part_003.  A timer runs its callback at   *)
(* the time it was set for, and no event is handled before a timer due     *)
(* earlier.  Beeps, the dot and the orientation samples are left out.      *)
(***************************************************************************)
\* part_002 lines 31-34
TAP_THRESHOLD == 1500
NOISE_FLOOR == 10
NOISE_FLOOR_Y == 300
\* the delays of the two setTimeout calls of startCountdown
TickMs == 100
HideMs == 50

\* filterNoise(ax, ay, az)
filterNoise(a) ==
    <<IF Abs(a[1]) < NOISE_FLOOR THEN 0 ELSE a[1],
      IF Abs(a[2]) < NOISE_FLOOR_Y THEN 0 ELSE a[2],
      IF Abs(a[3]) < NOISE_FLOOR THEN 0 ELSE a[3]>>

\* lines 308-314: the tap at timestamp ts, with the pending first tap at lastTs
tapWithinStrict(ts, lastTs, w) ==
    IF ts - lastTs < w
    THEN [lastTapTs |-> 0, fired |-> TRUE]
    ELSE [lastTapTs |-> ts, fired |-> FALSE]

\* Math.abs(mag - 9.81) > TAP_THRESHOLD
IsTap(a) == Abs(norm(a) - 981) > TAP_THRESHOLD

\* no timer is due before time ts
TimersAllow(ts) == \A tm \in timers : tm.due >= ts

\* startCountdown(onEnd) before its first tick, called at time ts
NewCountdown(ts) == [start |-> ts, count |-> 3, shown |-> <<>>, ended |-> 0, hides |-> 0]

\* tick() that goes on counting below 0
tickNoEnd(c, id, at) ==
    [c |-> [c EXCEPT !.shown = Append(@, [n |-> c.count, at |-> at]),
                     !.count = @ - 1],
     arm |-> {[id |-> id, kind |-> "tick", due |-> at + TickMs]},
     onEnd |-> FALSE]

\* tick() of countdown c (the id-th) at time at: the countdown afterwards, the
\* timer it arms, and whether it called onEnd
tick(c, id, at) ==
    IF c.count = 0
    THEN [c |-> [c EXCEPT !.shown = Append(@, [n |-> c.count, at |-> at]),
                          !.ended = @ + 1, !.hides = @ + 1],
          arm |-> {[id |-> id, kind |-> "hide", due |-> at + HideMs]},
          onEnd |-> TRUE]
    ELSE [c |-> [c EXCEPT !.shown = Append(@, [n |-> c.count, at |-> at]),
                          !.count = @ - 1],
          arm |-> {[id |-> id, kind |-> "tick", due |-> at + TickMs]},
          onEnd |-> FALSE]

\* startSensorListener()
startSensorListener ==
    IF listening
    THEN UNCHANGED <<listening, accelSensor, sensors>>
    ELSE /\ listening' = TRUE
         /\ IF hasSensorAPI
            THEN accelSensor' = TRUE /\ sensors' = sensors + 1
            ELSE UNCHANGED <<accelSensor, sensors>>

\* requestPermission() (part_002 lines 391-416): the platform grants or denies
RequestPermissionP2 ==
    /\ mode = "countdown"
    /\ \E res \in {"granted", "denied"} :
         IF res = "granted"
         THEN permissionGranted' = TRUE /\ startSensorListener
         ELSE UNCHANGED <<permissionGranted, listening, accelSensor, sensors>>
    /\ last' = PageOp("requestPermission", AccZero, FALSE)
    /\ UNCHANGED <<mode, streamVars, liveVars, capturing, motionData, analysis,
                   sinceStart, calibVars, metricVars, formulaVars, callbackVars, chartVars, tapVars,
                   hasSensorAPI, resetShown, timerVars>>

\* processMotion(ev) (part_002 lines 300-324) with the onDoubleTap() (377-389),
\* startCountdown() (275-290) and stopCapture() (371-375) it may call
ProcessMotionP2 ==
    /\ mode = "countdown"
    /\ listening
    /\ \E o \in Offered :
         LET ts == now + o.dt
             a == recorded(o.acc)
             r == tapWithinStrict(ts, lastTapTs, TAP_WINDOW)
             dbl == IsTap(a) /\ r.fired /\ proceeds(permissionGranted)
             starts == dbl /\ ~capturing
             stops == dbl /\ capturing
             cd == tick(NewCountdown(ts), Len(countdowns) + 1, ts)
             pushes == capturing /\ ~stops /\ ~hasSensorAPI
             sample == [t |-> ts, a |-> filterNoise(a)]
         IN  /\ TimersAllow(ts)
             /\ now' = ts
             /\ nSamples' = nSamples + 1
             /\ feed' = FeedAfter
             /\ lastTapTs' = IF IsTap(a) THEN r.lastTapTs ELSE lastTapTs
             /\ tapLog' = IF IsTap(a)
                          THEN Append(tapLog, [t |-> ts, fired |-> r.fired,
                                               stopped |-> stops])
                          ELSE tapLog
             /\ countdowns' = IF starts THEN Append(countdowns, cd.c) ELSE countdowns
             /\ timers' = IF starts THEN timers \cup cd.arm ELSE timers
             /\ capturing' = (capturing /\ ~stops)
             /\ analysis' = IF stops THEN analyzeJumpsP3(motionData) ELSE analysis
             /\ resetShown' = IF stops THEN ResetAfter(analyzeJumpsP3(motionData))
                              ELSE resetShown
             /\ motionData' = IF pushes THEN Append(motionData, sample) ELSE motionData
             /\ sinceStart' = IF pushes THEN Append(sinceStart, sample) ELSE sinceStart
             /\ last' = PageOp("processMotion", o.acc, pushes)
    /\ UNCHANGED <<mode, liveVars, permissionGranted, listening, calibVars,
                   metricVars, formulaVars, callbackVars, chartVars, trigger, sensorVars>>

\* handleSensorReading() (part_002 lines 339-352), the reading event of the sensor
HandleSensorReadingP2 ==
    /\ mode = "countdown"
    /\ sensors > 0
    /\ \E o \in Offered :
         LET ts == now + o.dt
             sample == [t |-> ts,
                        a |-> filterNoise(IF accelSensor THEN recorded(o.acc)
                                          ELSE AccZero)]
         IN  /\ TimersAllow(ts)
             /\ now' = ts
             /\ nSamples' = nSamples + 1
             /\ feed' = FeedAfter
             /\ motionData' = IF capturing THEN Append(motionData, sample)
                              ELSE motionData
             /\ sinceStart' = IF capturing THEN Append(sinceStart, sample)
                              ELSE sinceStart
             /\ last' = PageOp("handleSensorReading", o.acc, capturing)
    /\ UNCHANGED <<mode, liveVars, permissionGranted, capturing, listening, analysis,
                   calibVars, metricVars, formulaVars, callbackVars, chartVars, tapVars, sensorVars,
                   resetShown, timerVars>>

\* the callback of the pending timer due first: tick() of a countdown, with
\* the onEnd callback of onDoubleTap (lines 380-383) and startCapture()
\* (365-369) on its last tick, or the hiding of the display
TimerFiresP2 ==
    /\ mode = "countdown"
    /\ \E tm \in timers :
         /\ \A other \in timers : tm.due <= other.due
         /\ now' = Max(now, tm.due)
         /\ IF tm.kind = "hide"
            THEN /\ timers' = timers \ {tm}
                 /\ UNCHANGED <<countdowns, capturing, motionData, sinceStart>>
            ELSE LET r == tick(countdowns[tm.id], tm.id, tm.due)
                 IN  /\ timers' = (timers \ {tm}) \cup r.arm
                     /\ countdowns' = [countdowns EXCEPT ![tm.id] = r.c]
                     /\ IF r.onEnd
                        THEN /\ motionData' = <<>>
                             /\ capturing' = TRUE
                             /\ sinceStart' = IF capturing THEN sinceStart ELSE <<>>
                        ELSE UNCHANGED <<capturing, motionData, sinceStart>>
    /\ last' = PageOp("timer", AccZero, FALSE)
    /\ UNCHANGED <<mode, nSamples, feed, liveVars, permissionGranted, listening,
                   analysis, calibVars, metricVars, formulaVars, callbackVars, chartVars, tapVars,
                   sensorVars, resetShown>>

\* resetApp() (part_002 lines 221-236), the click handler of the Reset button
ResetAppP2 ==
    /\ mode = "countdown"
    /\ resetShown
    /\ motionData' = <<>>
    /\ capturing' = FALSE
    /\ resetShown' = FALSE
    /\ analysis' = [status |-> "none"]
    /\ last' = PageOp("resetApp", AccZero, FALSE)
    /\ UNCHANGED <<mode, streamVars, liveVars, permissionGranted, listening,
                   sinceStart, calibVars, metricVars, formulaVars, callbackVars, chartVars, tapVars,
                   sensorVars, timerVars>>

(***************************************************************************)
(* js/app.js (and part_006): SensorController.  A sensor object is a       *)
(* record of its type, whether it is activated, and whether its onreading  *)
(* handler is set; this.sensor is its position in the list of the objects  *)
(* constructed, 0 for null.  The k-th reading delivered carries the values *)
(* 3k, 3k + 1 and 3k + 2 and is pushed at time k.                          *)
(***************************************************************************)
maxPoints == 100

\* the values of the selector; on the device modelled window.GravitySensor is
\* undefined, and OrientationSensor is an interface that cannot be constructed
SensorTypes == {"Accelerometer", "RelativeOrientationSensor", "OrientationSensor",
                "GravitySensor"}
Supported == SensorTypes \ {"GravitySensor"}

\* what new Constructor({ frequency: 60 }) and sensor.start() may do
Outcomes(type) ==
    IF type = "OrientationSensor" THEN {"constructThrew"}
    ELSE {"ok", "constructThrew", "startThrew"}

\* no SensorController exists
Unloaded ==
    [sensor |-> 0, made |-> <<>>, labelBuffer |-> <<>>,
     dataBuffers |-> [x |-> <<>>, y |-> <<>>, z |-> <<>>],
     pushed |-> <<>>, starts |-> 0, lastOp |-> [op |-> "none"]]

\* stopSensor() that forgets the sensor without stopping it
stopSensorForget(c) == [c EXCEPT !.sensor = 0]

\* stopSensor()
stopSensor(c) ==
    IF c.sensor # 0
    THEN [c EXCEPT !.made[c.sensor] = [@ EXCEPT !.activated = FALSE,
                                                !.onreading = FALSE],
                   !.sensor = 0]
    ELSE c

\* startSensor(type), the constructor and start() doing what outcome says
startSensor(c, type, outcome) ==
    LET s == [stopSensor(c) EXCEPT !.starts = @ + 1]
    IN  IF type \notin Supported
        THEN [s EXCEPT !.lastOp = [op |-> "startSensor", outcome |-> "unsupported"]]
        ELSE IF outcome = "constructThrew"
        THEN [s EXCEPT !.lastOp = [op |-> "startSensor", outcome |-> outcome]]
        ELSE IF outcome = "startThrew"
        THEN [s EXCEPT !.made = Append(@, [type |-> type, activated |-> FALSE,
                                           onreading |-> TRUE]),
                       !.lastOp = [op |-> "startSensor", outcome |-> outcome]]
        ELSE [s EXCEPT !.made = Append(@, [type |-> type, activated |-> TRUE,
                                           onreading |-> TRUE]),
                       !.sensor = Len(s.made) + 1,
                       !.lastOp = [op |-> "startSensor", outcome |-> outcome]]

\* buffer.push(v) that refuses the value when the buffer is full
pushCappedDropNew(buffer, v) ==
    IF Len(buffer) >= maxPoints THEN buffer ELSE Append(buffer, v)

\* buffer.push(v); if (buffer.length > this.maxPoints) buffer.shift()
pushCapped(buffer, v) ==
    LET b == Append(buffer, v)
    IN  IF Len(b) > maxPoints THEN Tail(b) ELSE b

\* pushData(x, y, z) at time timestamp
pushData(c, x, y, z, timestamp) ==
    [c EXCEPT !.labelBuffer = pushCapped(@, timestamp),
              !.dataBuffers = [x |-> pushCapped(@.x, x),
                               y |-> pushCapped(@.y, y),
                               z |-> pushCapped(@.z, z)],
              !.pushed = Append(@, [t |-> timestamp, x |-> x, y |-> y, z |-> z]),
              !.lastOp = [op |-> "reading"]]

\* the fields of a sensor of the type at its k-th reading
fieldsAt(type, k) ==
    IF type = "Accelerometer"
    THEN [x |-> 3 * k, y |-> 3 * k + 1, z |-> 3 * k + 2, quaternion |-> <<>>]
    ELSE [x |-> Null, y |-> Null, z |-> Null,
          quaternion |-> <<3 * k, 3 * k + 1, 3 * k + 2, 1>>]

\* sensor.x ?? sensor.quaternion?.[i] ?? 0
axisOf(v, quaternion, i) ==
    IF v # Null THEN v
    ELSE IF quaternion # <<>> THEN quaternion[i]
    ELSE 0

\* the change event of the selector: startSensor(e.target.value)
StartSensor ==
    /\ mode = "charts"
    /\ controller.starts < MaxStarts
    /\ \E type \in SensorTypes : \E outcome \in Outcomes(type) :
         controller' = startSensor(controller, type, outcome)
    /\ UNCHANGED <<mode, streamVars, liveVars, last, batchVars, calibVars,
                   metricVars, formulaVars, callbackVars, pageVars>>

\* the reading event of an activated sensor reaches the onreading handler
\* set on it
OnReading ==
    /\ mode = "charts"
    /\ Len(controller.pushed) < MaxPushes
    /\ \E i \in 1..Len(controller.made) :
         LET sensor == fieldsAt(controller.made[i].type, Len(controller.pushed) + 1)
         IN  /\ controller.made[i].activated /\ controller.made[i].onreading
             /\ controller' = pushData(controller,
                                       axisOf(sensor.x, sensor.quaternion, 1),
                                       axisOf(sensor.y, sensor.quaternion, 2),
                                       axisOf(sensor.z, sensor.quaternion, 3),
                                       Len(controller.pushed) + 1)
    /\ UNCHANGED <<mode, streamVars, liveVars, last, batchVars, calibVars,
                   metricVars, formulaVars, callbackVars, pageVars>>

\* the error event of an activated sensor: the platform deactivates it, and
\* onerror logs the error
OnError ==
    /\ mode = "charts"
    /\ \E i \in 1..Len(controller.made) :
         /\ controller.made[i].activated
         /\ controller' = [controller EXCEPT !.made[i].activated = FALSE,
                                             !.lastOp = [op |-> "error"]]
    /\ UNCHANGED <<mode, streamVars, liveVars, last, batchVars, calibVars,
                   metricVars, formulaVars, callbackVars, pageVars>>

(***************************************************************************)
(* Specifications                                                          *)
(***************************************************************************)
InitJump ==
    /\ now = 0 /\ nSamples = 0
    /\ jumps = <<>>
    /\ last = NoOp
    /\ stale = [contact |-> FALSE, takeoff |-> FALSE, jumps |-> <<>>]
    /\ permissionGranted = FALSE /\ capturing = FALSE /\ listening = FALSE
    /\ motionData = <<>> /\ sinceStart = <<>>
    /\ analysis = [status |-> "none"]
    /\ calibration = NoCalib /\ perfNow = 0
    /\ seriesSummary = NoSummary
    /\ ret = NoRet
    /\ failed = {}
    /\ controller = Unloaded

\* no double-tap trigger is installed
NoTrigger == trigger = "none" /\ lastTapTs = 0 /\ tapLog = <<>>

\* no page controller of part_002 or part_003 is loaded
NoController ==
    /\ hasSensorAPI = FALSE /\ accelSensor = FALSE /\ sensors = 0
    /\ resetShown = FALSE
    /\ timers = {} /\ countdowns = <<>>

InitIdle == InitJump /\ NoTrigger /\ NoController

InitLive ==
    /\ mode = "live"
    /\ mEvents = <<>>
    /\ call = NoCall
    /\ feed = FreeFeed
    /\ \E opts \in DetectorOpts : det = JumpEventDetector(opts)
    /\ InitIdle

InitBatch ==
    /\ mode = "batch"
    /\ mEvents = <<>>
    /\ call = NoCall
    /\ feed = FreeFeed
    /\ det = NoDetector
    /\ InitIdle

Init == InitLive \/ InitBatch

Next == Start \/ Stop \/ OnMotion \/ RequestPermission \/ OnDoubleTap \/ HandleMotion

Spec == Init /\ [][Next]_vars

(***************************************************************************)
(* A scripted stream: samples at rest every p ticks for 1 s from t0, one   *)
(* sample of contact motion, samples the detector classifies as flight for *)
(* 0.3 s (the first with no reading, then at rest), and contact motion     *)
(* again.                                                                  *)
(***************************************************************************)
ScenT0 == {10, 30, 100}
ScenPeriods == {10, 50, 100}

Scenario(t0, p) ==
    [i \in 1..(100 \div p) |-> [dt |-> IF i = 1 THEN t0 ELSE p, acc |-> AccRest]]
    \o <<[dt |-> p, acc |-> AccPush]>>
    \o <<[dt |-> p, acc |-> AccZero]>>
    \o [i \in 1..(29 \div p) |-> [dt |-> p, acc |-> AccRest]]
    \o <<[dt |-> 30 - p * (29 \div p), acc |-> AccPush]>>

InitScenario ==
    /\ mode \in {"live", "batch"}
    /\ mEvents = <<>>
    /\ call = NoCall
    /\ \E t0 \in ScenT0, p \in ScenPeriods :
          feed = [scripted |-> TRUE, period |-> p, rest |-> Scenario(t0, p)]
    /\ det = IF mode = "live"
             THEN JumpEventDetector([gUnit |-> <<0, 1000, 0>>, g0 |-> 981])
             ELSE NoDetector
    /\ InitIdle

NextScenario == Start \/ OnMotion \/ RequestPermission \/ OnDoubleTap \/ HandleMotion

SpecScenario == InitScenario /\ [][NextScenario]_vars

\* the detectors on streams long enough for a series of jumps
InitSeries ==
    /\ mode \in {"live", "batch"}
    /\ mEvents = <<>>
    /\ call = NoCall
    /\ \E p \in SeriesPeriods : feed = SeriesFeed(p)
    /\ det = IF mode = "live"
             THEN JumpEventDetector([gUnit |-> <<0, 1000, 0>>, g0 |-> 981])
             ELSE NoDetector
    /\ InitIdle

SpecSeries == InitSeries /\ [][Next]_vars

InitCalib ==
    /\ mode = "calibration"
    /\ feed = FreeFeed
    /\ det = NoDetector
    /\ mEvents = <<>>
    /\ call = NoCall
    /\ InitIdle

NextCalib == Calibrate \/ ClockTick \/ OnCalib

SpecCalib == InitCalib /\ [][NextCalib]_vars

\* a calibration on a device at rest
InitCalibLive ==
    /\ mode = "atRest"
    /\ feed = FreeFeed
    /\ det = NoDetector
    /\ mEvents = <<>>
    /\ call = NoCall
    /\ InitIdle

\* time passes, and motion events with a reading keep arriving
SpecCalibLive ==
    InitCalibLive /\ [][NextCalib]_vars /\ WF_vars(ClockTick) /\ WF_vars(OnCalib)

InitMetrics ==
    /\ mode = "metrics"
    /\ feed = FreeFeed
    /\ det = NoDetector
    /\ mEvents \in EventLists
    /\ call = NoCall
    /\ InitIdle

NextMetrics == Summarize

SpecMetrics == InitMetrics /\ [][NextMetrics]_vars

InitFormulas ==
    /\ mode = "formulas"
    /\ feed = FreeFeed
    /\ det = NoDetector
    /\ mEvents = <<>>
    /\ call \in Calls
    /\ InitIdle

NextFormulas == CallFlightTime \/ CallContactTime \/ CallHeight \/ CallRsi

SpecFormulas == InitFormulas /\ [][NextFormulas]_vars

\* createDoubleTapTrigger(el, onDoubleTap): lines 176-181 register one listener
InitTaps ==
    /\ mode = "taps"
    /\ feed = FreeFeed
    /\ det = NoDetector
    /\ mEvents = <<>>
    /\ call = NoCall
    /\ InitJump
    /\ trigger \in {"pointerup", "touchend"}
    /\ lastTapTs = 0
    /\ tapLog = <<>>
    /\ NoController

NextTaps == HandlerPointer \/ HandlerTouch \/ Unsubscribe

SpecTaps == InitTaps /\ [][NextTaps]_vars

\* what InitJump says of the variables other than permissionGranted and listening
InitPage ==
    /\ det = NoDetector
    /\ mEvents = <<>>
    /\ call = NoCall
    /\ now = 0 /\ nSamples = 0
    /\ jumps = <<>>
    /\ last = PageOp("init", AccZero, FALSE)
    /\ stale = [contact |-> FALSE, takeoff |-> FALSE, jumps |-> <<>>]
    /\ capturing = FALSE
    /\ motionData = <<>> /\ sinceStart = <<>>
    /\ analysis = [status |-> "none"]
    /\ calibration = NoCalib /\ perfNow = 0
    /\ seriesSummary = NoSummary
    /\ ret = NoRet
    /\ failed = {}
    /\ controller = Unloaded

\* part_003 at load (lines 19-28, 382-390): off iOS the permission is taken
\* as granted
InitSensor ==
    /\ mode = "sensor"
    /\ \E p \in SeriesPeriods : feed = SeriesFeed(p)
    /\ permissionGranted \in BOOLEAN
    /\ hasSensorAPI \in BOOLEAN
    /\ listening = FALSE
    /\ accelSensor = FALSE /\ sensors = 0
    /\ resetShown = FALSE
    /\ timers = {} /\ countdowns = <<>>
    /\ NoTrigger
    /\ InitPage

NextSensor ==
    \/ RequestPermissionP3 \/ OnDoubleTapP3 \/ HandleMotionP3
    \/ HandleSensorReadingP3 \/ ResetAppP3

SpecSensor == InitSensor /\ [][NextSensor]_vars

\* part_002 at load (lines 18-29, 418-424): off iOS the permission is taken as
\* granted and startSensorListener() has run
InitCountdown ==
    /\ mode = "countdown"
    /\ feed = SeriesFeed(30)
    /\ hasSensorAPI \in BOOLEAN
    /\ permissionGranted \in BOOLEAN
    /\ listening = permissionGranted
    /\ accelSensor = (permissionGranted /\ hasSensorAPI)
    /\ sensors = IF permissionGranted /\ hasSensorAPI THEN 1 ELSE 0
    /\ resetShown = FALSE
    /\ timers = {} /\ countdowns = <<>>
    /\ NoTrigger
    /\ InitPage

NextCountdown ==
    \/ RequestPermissionP2 \/ ProcessMotionP2 \/ HandleSensorReadingP2
    \/ TimerFiresP2 \/ ResetAppP2

SpecCountdown == InitCountdown /\ [][NextCountdown]_vars

\* the browser runs the callback of every timer that is set
SpecCountdownLive == SpecCountdown /\ WF_vars(TimerFiresP2)

\* a started-from-scratch detector with calibrated options whose onJump
\* callback may throw, on a stream at a fixed rate
InitThrow ==
    /\ mode = "throwing"
    /\ mEvents = <<>>
    /\ call = NoCall
    /\ \E p \in SeriesPeriods : feed = SeriesFeed(p)
    /\ det = JumpEventDetector([gUnit |-> <<0, 1000, 0>>, g0 |-> 981])
    /\ InitIdle

NextThrow == Start \/ Stop \/ OnMotionThrows

SpecThrow == InitThrow /\ [][NextThrow]_vars

\* new SensorController(): the fields of lines 11-15, then
\* this.startSensor(selector.value)
InitCharts ==
    /\ mode = "charts"
    /\ mEvents = <<>>
    /\ call = NoCall
    /\ feed = FreeFeed
    /\ det = NoDetector
    /\ now = 0 /\ nSamples = 0
    /\ jumps = <<>>
    /\ last = NoOp
    /\ stale = [contact |-> FALSE, takeoff |-> FALSE, jumps |-> <<>>]
    /\ permissionGranted = FALSE /\ capturing = FALSE /\ listening = FALSE
    /\ motionData = <<>> /\ sinceStart = <<>>
    /\ analysis = [status |-> "none"]
    /\ calibration = NoCalib /\ perfNow = 0
    /\ seriesSummary = NoSummary
    /\ ret = NoRet
    /\ failed = {}
    /\ NoTrigger /\ NoController
    /\ \E type \in SensorTypes : \E outcome \in Outcomes(type) :
         controller = [startSensor(Unloaded, type, outcome) EXCEPT !.starts = 0]

NextCharts == StartSensor \/ OnReading \/ OnError

SpecCharts == InitCharts /\ [][NextCharts]_vars

\* the two capture controllers driven by double taps: js/jumpApp.js and part_002
InitControllers == InitBatch \/ InitCountdown

NextControllers ==
    \/ RequestPermission \/ OnDoubleTap \/ HandleMotion
    \/ NextCountdown

SpecControllers == InitControllers /\ [][NextControllers]_vars


(***************************************************************************)
(* Properties                                                              *)
(***************************************************************************)
\* after stopCapture: the loop state of detectJumpEvents(motionData) after its
\* first i samples, and the gravity estimate of that call
BatchLoop(i) == last.passes.states[i + 1]
BatchG0 == last.passes.g0
\* the events detectJumpEvents returned to the last analyzeJumps()
Analysed == IF analysis.status = "none" THEN <<>> ELSE analysis.events

Ordered(evt) ==
    /\ IsNumber(evt.tContactStart) /\ IsNumber(evt.tTakeoff) /\ IsNumber(evt.tLanding)
    /\ evt.tLanding > evt.tTakeoff
    /\ evt.tTakeoff >= evt.tContactStart

\* C1: every event emitted by the live detector, and every event returned by
\* the batch detector to analyzeJumps, has
\* tLanding > tTakeoff >= tContactStart.
C1_EventsOrdered ==
    /\ \A i \in 1..Len(jumps) : Ordered(jumps[i])
    /\ \A i \in 1..Len(Analysed) : Ordered(Analysed[i])

C1_Witness == mode = "live" /\ Len(jumps) >= 1

\* the claim's condition for emitting on a landing at time t with the markers given
C2_Bounds(tContactStart, tTakeoff, t) ==
    /\ minFlight <= t - tTakeoff /\ t - tTakeoff <= maxFlight
    /\ tTakeoff - tContactStart >= minContact

C2_Live ==
    /\ Len(jumps) - last.preJumps \in {0, 1}
    /\ last.op # "motion" => Len(jumps) = last.preJumps
    /\ last.op = "motion" =>
         LET d == last.pre
             landing == d.inFlight /\ ~IsFlight(det.aTotEma, det.aVertEma, det.g0)
         IN  /\ Len(jumps) = last.preJumps + 1
                    <=> landing /\ C2_Bounds(d.tContactStart, d.tTakeoff, now)
             /\ Len(jumps) = last.preJumps + 1
                    => jumps[Len(jumps)] = [tContactStart |-> d.tContactStart,
                                            tTakeoff |-> d.tTakeoff,
                                            tLanding |-> now]

C2_Batch ==
    last.op = "stopCapture" => \A i \in 1..Len(motionData) :
        LET a == BatchLoop(i - 1)
            b == BatchLoop(i)
            t == motionData[i].t - motionData[1].t
            landing == a.inFlight /\ ~IsFlight(b.aTotEma, b.aVertEma, BatchG0)
            evt == [tContactStart |-> a.tContactStart, tTakeoff |-> a.tTakeoff,
                    tLanding |-> t]
        IN  /\ b.events = a.events \/ b.events = Append(a.events, evt)
            /\ b.events # a.events
                   <=> landing /\ C2_Bounds(a.tContactStart, a.tTakeoff, t)

\* C2 (the batch part is checked pass by pass on the list stopCapture analysed):
\* an event is emitted only by a landing sample (in flight before it, not
\* flight-classified by it), at most one per sample, and by such a sample exactly
\* when minFlight <= tLanding - tTakeoff <= maxFlight and
\* tTakeoff - tContactStart >= minContact; no other operation emits.
C2_EmittedIffValidLanding == C2_Live /\ C2_Batch

C2_Witness ==
    /\ mode = "live" /\ last.op = "motion"
    /\ Len(jumps) = last.preJumps + 1
    /\ now - last.pre.tTakeoff = minFlight

Phase(d) == <<d.aVertEma, d.aTotEma, d.inFlight, d.inMotion,
              d.tContactStart, d.tTakeoff>>

\* C3 (as claimed): a sample whose timestamp is not greater than the previous
\* sample's leaves the filter values, the flags and the markers as they were and
\* emits nothing.
C3_StaleSampleIsNoOp ==
    /\ (last.op = "motion" /\ last.pre.lastTs # Null /\ now <= last.pre.lastTs)
          => Phase(det) = Phase(last.pre) /\ Len(jumps) = last.preJumps
    /\ last.op = "stopCapture" =>
         \A i \in 2..Len(motionData) :
            motionData[i].t <= motionData[i - 1].t
                => BatchLoop(i) = BatchLoop(i - 1)

\* C4 (as claimed): no emitted event uses a tContactStart or tTakeoff that was
\* pending when the detector was stopped, and stop() itself emits nothing.
C4_StopDiscardsPending ==
    /\ last.op = "stop" => Len(jumps) = last.preJumps
    /\ \A i \in 1..Len(stale.jumps) :
          ~stale.jumps[i].contact /\ ~stale.jumps[i].takeoff

\* C5 (as claimed): right after a capture is started the filter is (0, g0), the
\* phase is Ground with no marker, and nothing recorded before is left.
C5_StartIsFresh ==
    /\ last.op = "start" =>
          /\ det.aVertEma = 0 /\ det.aTotEma = det.g0
          /\ ~det.inFlight /\ ~det.inMotion
          /\ det.tContactStart = Null /\ det.tTakeoff = Null
    /\ last.op = "startCapture" => motionData = <<>>

MinCalibSamples == 10
GravityMin == 500
GravityMax == 1500

Validated(n, g0) == n >= MinCalibSamples /\ g0 >= GravityMin /\ g0 <= GravityMax

\* C6 (as claimed): whenever the state machine has processed samples, its gravity
\* estimate came from at least 10 calibration samples and lies in [5, 15] m/s^2.
C6_OnlyValidatedGravity ==
    /\ (mode = "live" /\ last.op = "motion")
          => det.g0 >= GravityMin /\ det.g0 <= GravityMax
    /\ (mode = "batch" /\ last.op = "stopCapture" /\ motionData # <<>>)
          => LET g == gravityOf(motionData, calibMsDefault)
             IN  Validated(g.n, g.g0)

MetricsOk(evt) ==
    /\ flightTime(evt) # Threw /\ flightTime(evt) > 0
    /\ contactTime(evt) # Threw /\ contactTime(evt) > 0
    /\ heightFromFlightTime(flightTime(evt), G0) # Threw
    /\ heightFromFlightTime(flightTime(evt), G0) >= 0
    /\ rsi(heightFromFlightTime(flightTime(evt), G0), contactTime(evt)) # Threw

\* C9: the metrics functions accept every event the detectors emit, so
\* summarizeSeries and analyzeJumps do not throw on detector output.
C9_MetricsAcceptEvents ==
    /\ \A i \in 1..Len(jumps) : MetricsOk(jumps[i])
    /\ ~summarizeSeries(jumps, G0).threw
    /\ \A i \in 1..Len(Analysed) : MetricsOk(Analysed[i])
    /\ analysis.status # "threw"

C9_Witness == mode = "batch" /\ analysis.status = "ok"

StreamDone == feed.scripted /\ feed.rest = <<>>

OneJumpOfFlight(events) ==
    /\ Len(events) = 1
    /\ Abs((events[1].tLanding - events[1].tTakeoff) - 30) <= 5

C8_Live == (mode = "live" /\ StreamDone) => OneJumpOfFlight(jumps)

C8_Batch ==
    (mode = "batch" /\ StreamDone /\ Len(motionData) = nSamples
         /\ last.op = "stopCapture")
        => OneJumpOfFlight(analysis.events)

\* C8 (as claimed): once the whole scripted stream (1 s at rest, contact motion,
\* 0.3 s classified as flight, contact motion) has been processed, exactly one
\* event has been emitted and its flight time is 0.3 s within 50 ms.
C8_OneJumpPerStream == C8_Live /\ C8_Batch

\* g is the floor of the Euclidean norm of v
IsNormOf(g, v) == g >= 0 /\ g * g <= dot(v, v) /\ dot(v, v) < (g + 1) * (g + 1)

CalibSettled ==
    /\ calibration.status \in {"resolved", "rejected"}
    /\ calibration.error # "permission"

\* C7: when calibrate settles, it rejects with the insufficient-samples error
\* if fewer than 10 samples were collected (checked first); otherwise it
\* rejects with the implausible-gravity error if the norm of the mean sample
\* is below 5 or above 15 m/s^2; otherwise it resolves with g0 equal to that
\* norm and gUnit equal to the mean divided by g0.
C7_CalibrateOutcome ==
    CalibSettled =>
        LET n == Len(calibration.samples)
            sum == SumAcc(calibration.samples, 1)
            mean == [i \in 1..3 |-> sum[i] \div n]
            sq == dot(mean, mean)
        IN  IF n < MinCalibSamples
            THEN calibration.status = "rejected" /\ calibration.error = "insufficient"
            ELSE IF sq < GravityMin * GravityMin
                    \/ sq >= (GravityMax + 1) * (GravityMax + 1)
            THEN calibration.status = "rejected" /\ calibration.error = "implausible"
            ELSE /\ calibration.status = "resolved"
                 /\ IsNormOf(calibration.g0, mean)
                 /\ \A i \in 1..3 :
                      /\ calibration.gUnit[i] * calibration.g0 <= mean[i] * UnitScale
                      /\ mean[i] * UnitScale < (calibration.gUnit[i] + 1) * calibration.g0

C7_Witness ==
    /\ calibration.status = "resolved"
    /\ Len(calibration.samples) = MinCalibSamples
    /\ calibration.g0 = 1000

ValidEvent(evt) ==
    evt.tTakeoff > evt.tContactStart /\ evt.tLanding > evt.tTakeoff

\* C10: for a list of valid events summarizeSeries returns count equal to the
\* number of events, duration equal to the latest landing minus the earliest
\* contact start, and cadence equal to count / duration * 60 when the duration
\* is positive and 0 otherwise; an empty list gives count 0, duration 0 and
\* cadence 0.
C10_SummarizeSeries ==
    (seriesSummary.computed /\ \A i \in 1..Len(mEvents) : ValidEvent(mEvents[i])) =>
        LET r == seriesSummary.result
            n == Len(mEvents)
        IN  /\ ~r.threw
            /\ r.count = n
            /\ Len(r.items) = n
            /\ IF n = 0
               THEN r.duration = 0 /\ r.cadence = 0
               ELSE /\ \E i, j \in 1..n :
                         /\ \A k \in 1..n :
                              /\ mEvents[k].tLanding <= mEvents[i].tLanding
                              /\ mEvents[j].tContactStart <= mEvents[k].tContactStart
                         /\ r.duration = mEvents[i].tLanding - mEvents[j].tContactStart
                    /\ r.duration > 0
                    /\ r.cadence * r.duration <= n * TicksPerMinute * CadenceScale
                    /\ n * TicksPerMinute * CadenceScale < (r.cadence + 1) * r.duration

C10_Witness ==
    /\ seriesSummary.computed
    /\ Len(mEvents) = 2
    /\ \A i \in 1..2 : ValidEvent(mEvents[i])
    /\ mEvents[2].tContactStart < mEvents[1].tContactStart
    /\ seriesSummary.result.count = 2

C10_WitnessEmpty ==
    /\ seriesSummary.computed
    /\ mEvents = <<>>
    /\ seriesSummary.result.cadence = 0

\* C11: flightTime returns tLanding - tTakeoff and contactTime returns
\* tTakeoff - tContactStart; each throws exactly when a timestamp it needs is
\* missing or its difference is not > 0, and a returned duration is positive.
C11_DurationsPositiveOrThrow ==
    (ret.done /\ call.fn \in {"flightTime", "contactTime"}) =>
        LET from == IF call.fn = "flightTime" THEN call.evt.tTakeoff
                    ELSE call.evt.tContactStart
            to == IF call.fn = "flightTime" THEN call.evt.tLanding
                  ELSE call.evt.tTakeoff
        IN  IF from = Null \/ to = Null \/ to - from <= 0
            THEN ret.out = Threw
            ELSE ret.out = to - from /\ ret.out > 0

C11_Witness ==
    /\ ret.done /\ call.fn = "contactTime"
    /\ call.evt.tContactStart = 10 /\ call.evt.tTakeoff = 25
    /\ ret.out = 15

\* C12: heightFromFlightTime(t, g) throws for every t <= 0, returns g*t*t/8
\* for t > 0, and for a fixed g > 0 is strictly increasing in t.
C12_HeightIncreasing ==
    (ret.done /\ call.fn = "heightFromFlightTime") =>
        /\ call.t1 <= 0 => ret.out = Threw
        /\ call.t1 > 0 =>
             /\ ret.out * 8 <= call.g * call.t1 * call.t1
             /\ call.g * call.t1 * call.t1 < (ret.out + 1) * 8
        /\ (call.g > 0 /\ 0 < call.t1 /\ call.t1 < call.t2) => ret.out < ret.out2

C12_Witness ==
    /\ ret.done /\ call.fn = "heightFromFlightTime"
    /\ call.g = G0 /\ call.t1 = 10 /\ call.t2 = 30
    /\ ret.out < ret.out2

\* C13: rsi(height, contactTime) throws when height < 0 or contactTime <= 0,
\* otherwise returns height / contactTime, which for a fixed height does not
\* increase as contactTime increases.
C13_RsiNonIncreasing ==
    (ret.done /\ call.fn = "rsi") =>
        /\ (call.h < 0 \/ call.tc1 <= 0) => ret.out = Threw
        /\ (call.h >= 0 /\ call.tc1 > 0) =>
             /\ ret.out * call.tc1 <= call.h
             /\ call.h < (ret.out + 1) * call.tc1
        /\ (call.h >= 0 /\ 0 < call.tc1 /\ call.tc1 < call.tc2) => ret.out >= ret.out2

C13_Witness ==
    /\ ret.done /\ call.fn = "rsi"
    /\ call.h = 1103287 /\ call.tc1 = 8 /\ call.tc2 = 25
    /\ ret.out > ret.out2

C14_NoEventInWindow ==
    last.op = "stopCapture" =>
        \A i \in 1..Len(motionData) :
            InWindow(motionData[i], motionData[1].t, calibMsDefault) =>
                \A k \in 1..Len(Analysed) :
                    motionData[i].t - motionData[1].t
                        \notin {Analysed[k].tTakeoff, Analysed[k].tLanding}

\* C14 (as claimed): a sample inside the calibration window (within calibMs of
\* the first sample) is not stepped through the state machine: the pass of the
\* loop over it changes neither the filter nor the phase state, and its
\* timestamp is no takeoff or landing of a returned event.
C14_CalibrationSamplesNotStepped ==
    /\ C14_NoEventInWindow
    /\ last.op = "stopCapture" =>
         \A i \in 1..Len(motionData) :
            InWindow(motionData[i], motionData[1].t, calibMsDefault) =>
                Phase(BatchLoop(i)) = Phase(BatchLoop(i - 1))

\* C15 (as claimed): the calibration window is measured on the samples' own
\* timestamps from the first sample: while calibrate() is collecting, every
\* sample received is less than the window after the first one, and the sample
\* that settles it is the first one stamped at least the window after the first.
C15_WindowOnSampleTimestamps ==
    /\ (calibration.status = "listening" /\ calibration.samples # <<>>) =>
           calibration.lastStamp - calibration.firstStamp < calibrateMsDefault
    /\ CalibSettled =>
           calibration.lastStamp - calibration.firstStamp >= calibrateMsDefault

\* C16: in the live detector an event with no acceleration object leaves every
\* detector field as it was and emits nothing, a missing axis is read as 0, the
\* detector stays registered after either, and the samples that follow are
\* processed as the samples of any other stream; handleMotion records a missing
\* axis as 0.
C16_AnomaliesAbsorbed ==
    /\ (mode = "live" /\ last.op = "motion") =>
         /\ det.running
         /\ last.raw = NoAcc => det = last.pre /\ Len(jumps) = last.preJumps
         /\ last.raw # NoAcc =>
              LET aVec == [i \in 1..3 |-> IF last.raw[i] = Null THEN 0 ELSE last.raw[i]]
                  r == onSample(last.pre, [timeStamp |-> now, acc |-> aVec])
              IN  det = r.det /\ Len(jumps) = last.preJumps + Len(r.evts)
    /\ (mode = "batch" /\ last.op = "handleMotion" /\ last.raw # NoAcc) =>
         \A i \in 1..3 :
             motionData[Len(motionData)].a[i]
                 = IF last.raw[i] = Null THEN 0 ELSE last.raw[i]

C16_Witness ==
    /\ mode = "live" /\ last.op = "motion"
    /\ last.absorbed /\ ~Anomalous(last.raw)
    /\ Len(jumps) = last.preJumps + 1

C16_WitnessDropped ==
    /\ mode = "live" /\ last.op = "motion" /\ last.raw = NoAcc
    /\ last.pre.inFlight

C16_WitnessAxis ==
    /\ mode = "live" /\ last.op = "motion" /\ last.raw = AccNoAxis

\* the flags and markers of Ground
InGround(d) ==
    /\ ~d.inFlight /\ ~d.inMotion
    /\ d.tContactStart = Null /\ d.tTakeoff = Null

\* the live handler has just processed a sample (an event with a reading)
Stepped == mode = "live" /\ last.op = "motion" /\ last.raw # NoAcc

\* the classification of the sample just processed
StepIsFlight == IsFlight(det.aTotEma, det.aVertEma, det.g0)
StepHasMotion == HasMotion(det.aVertEma)

C17_WitnessEmitted ==
    /\ Stepped /\ last.pre.inFlight /\ ~StepIsFlight
    /\ Len(jumps) = last.preJumps + 1

\* the markers agree with the flags
MarkersAgree(d) ==
    /\ d.tTakeoff # Null <=> d.inFlight
    /\ d.inFlight => d.tContactStart # Null
    /\ ~d.inFlight => (d.tContactStart # Null <=> d.inMotion)

C19_Live ==
    Stepped =>
        LET d == last.pre
        IN  /\ (~d.inFlight /\ ~StepIsFlight /\ StepHasMotion /\ d.tContactStart = Null)
                  => det.inMotion /\ det.tContactStart = now
            /\ (~d.inFlight /\ ~StepIsFlight /\ det.tContactStart # d.tContactStart)
                  => StepHasMotion /\ d.tContactStart = Null /\ det.tContactStart = now
            /\ (d.tContactStart # Null /\ ~(d.inFlight /\ ~StepIsFlight))
                  => det.tContactStart = d.tContactStart

C19_Batch ==
    last.op = "stopCapture" =>
        \A i \in 1..Len(motionData) :
            LET a == BatchLoop(i - 1)
                b == BatchLoop(i)
                t == motionData[i].t - motionData[1].t
                isFlight == IsFlight(b.aTotEma, b.aVertEma, BatchG0)
                hasMotion == HasMotion(b.aVertEma)
            IN  /\ (~a.inFlight /\ ~isFlight /\ hasMotion /\ a.tContactStart = Null)
                      => b.inMotion /\ b.tContactStart = t
                /\ (~a.inFlight /\ ~isFlight /\ b.tContactStart # a.tContactStart)
                      => hasMotion /\ a.tContactStart = Null /\ b.tContactStart = t
                /\ (a.tContactStart # Null /\ ~(a.inFlight /\ ~isFlight))
                      => b.tContactStart = a.tContactStart

C20_Live ==
    (Stepped /\ ~last.pre.inFlight /\ StepIsFlight) =>
        /\ det.inFlight /\ det.tTakeoff = now
        /\ last.pre.tContactStart = Null =>
               det.tContactStart = (IF now - FallbackWindow > 0
                                    THEN now - FallbackWindow ELSE 0)
        /\ last.pre.tContactStart # Null =>
               det.tContactStart = last.pre.tContactStart

C20_Batch ==
    last.op = "stopCapture" =>
        \A i \in 1..Len(motionData) :
            LET a == BatchLoop(i - 1)
                b == BatchLoop(i)
                t == motionData[i].t - motionData[1].t
            IN  (~a.inFlight /\ IsFlight(b.aTotEma, b.aVertEma, BatchG0)) =>
                    /\ b.inFlight /\ b.tTakeoff = t
                    /\ a.tContactStart = Null =>
                           b.tContactStart = (IF t - FallbackWindow > 0
                                              THEN t - FallbackWindow ELSE 0)
                    /\ a.tContactStart # Null =>
                           b.tContactStart = a.tContactStart

C20_TakeoffBackfill == C20_Live /\ C20_Batch

C20_Witness ==
    /\ Stepped /\ ~last.pre.inFlight /\ StepIsFlight
    /\ last.pre.tContactStart = Null
    /\ now > FallbackWindow
    /\ det.tContactStart = now - FallbackWindow

C20_WitnessKept ==
    /\ Stepped /\ ~last.pre.inFlight /\ StepIsFlight
    /\ last.pre.tContactStart # Null
    /\ det.tContactStart = last.pre.tContactStart

\* C21: the double-tap callback is invoked only on a tap that follows another
\* accepted tap by at most the tap window, that other tap not having invoked
\* it: a single tap never fires, and the tap after a firing one is a first tap.
C21_FiresOnSecondTapOnly ==
    \A i \in 1..Len(tapLog) :
        tapLog[i].fired =>
            /\ i > 1
            /\ ~tapLog[i - 1].fired
            /\ tapLog[i].t - tapLog[i - 1].t <= TAP_WINDOW

\* C22: two double taps are at least TAP_COOLDOWN apart.
C22_CooldownBetweenDoubleTaps ==
    \A i, j \in 1..Len(tapLog) :
        (i < j /\ tapLog[i].fired /\ tapLog[j].fired) =>
            tapLog[j].t - tapLog[i].t >= TAP_COOLDOWN

\* C23: a double tap with permission granted starts a capture when none is
\* running and stops the running one otherwise; stopCapture runs analyzeJumps
\* over exactly the samples handled since the startCapture before it, and
\* nothing else starts, stops or analyses a capture.
C23_Step ==
    /\ last'.op = "startCapture" =>
            /\ permissionGranted /\ ~capturing /\ capturing'
            /\ motionData' = <<>>
            /\ analysis' = analysis
    /\ last'.op = "stopCapture" =>
            /\ permissionGranted /\ capturing /\ ~capturing'
            /\ analysis' = analyzeJumps(sinceStart)
    /\ last'.op \notin {"startCapture", "stopCapture"} =>
            /\ capturing' = capturing
            /\ analysis' = analysis
            /\ capturing' => motionData' = sinceStart'

C23_CaptureAnalysedOnce == [][mode = "batch" => C23_Step]_vars

\* a second capture, with samples, has been stopped and analysed
C23_Witness ==
    /\ mode = "batch"
    /\ last.op = "stopCapture"
    /\ sinceStart # <<>>
    /\ nSamples > Len(sinceStart)
    /\ analysis.status # "none"

\* is sequence a the beginning of sequence b
IsPrefix(a, b) == Len(a) <= Len(b) /\ SubSeq(b, 1, Len(a)) = a

\* each flight of the list ends before the next one begins
FlightsOrdered(events) ==
    \A i \in 1..(Len(events) - 1) : events[i].tLanding <= events[i + 1].tTakeoff

\* C24: the emitted events are an append-only sequence: every step of the
\* live detector leaves the events already handed to onJump in place, every pass
\* of the batch loop leaves the events already pushed in place, and in both
\* lists each event's landing is no later than the next event's takeoff.
C24_Step ==
    /\ IsPrefix(jumps, jumps')
    /\ FlightsOrdered(jumps')
    /\ last'.op = "stopCapture" =>
            /\ \A i \in 1..Len(motionData) :
                    IsPrefix(last'.passes.states[i].events,
                             last'.passes.states[i + 1].events)
            /\ FlightsOrdered(analysis'.events)

C24_EventsAppendOnly == [][C24_Step]_vars

\* the live detector has emitted two events
C24_Witness == Len(jumps) = 2 /\ jumps[1].tLanding <= jumps[2].tTakeoff

\* the batch detector has returned two events
C24_WitnessBatch ==
    /\ last.op = "stopCapture"
    /\ Len(analysis.events) = 2
    /\ analysis.events[1].tLanding <= analysis.events[2].tTakeoff

\* the contact of each event of the list begins no earlier than the landing
\* of the event before it
ContactsAfterLanding(events) ==
    \A i \in 1..(Len(events) - 1) :
        events[i + 1].tContactStart >= events[i].tLanding

\* C25: for consecutive emitted events e1, e2, e2.tContactStart >= e1.tLanding,
\* in the live detector's events and in the batch detector's.
C25_Live == ContactsAfterLanding(jumps)
C25_Batch == last.op = "stopCapture" => ContactsAfterLanding(analysis.events)
C25_ContactAfterPreviousLanding == C25_Live /\ C25_Batch

\* two event lists agree in length and, pairwise, in flight and contact time
SameJumps(a, b) ==
    /\ Len(a) = Len(b)
    /\ \A i \in 1..Len(a) :
          /\ a[i].tLanding - a[i].tTakeoff = b[i].tLanding - b[i].tTakeoff
          /\ a[i].tTakeoff - a[i].tContactStart = b[i].tTakeoff - b[i].tContactStart

\* C26: on the samples of a capture, the live detector constructed with the
\* gravity estimate the batch detector computed emits as many events as the
\* batch detector returns, pairwise with the same flight and contact times.
C26_BatchAndLiveAgree ==
    (last.op = "stopCapture" /\ BatchG0 > 0) =>
        SameJumps(analysis.events,
                  liveEvents(motionData, [g0 |-> BatchG0, gUnit |-> last.passes.gUnit]))

\* C27: a motion sample is appended to motionData only while capturing is
\* true.
C27_AppendOnlyWhileCapturing == last.appended => capturing

\* C30: at most one started sensor with a registered reading handler exists.
C30_AtMostOneSensor == sensors <= 1

\* every sample recorded since capturing last became true is in motionData
C28_SamplesKept == capturing => motionData = sinceStart

\* no countdown that has called onEnd was running when a capture was stopped
C28_NoRestart ==
    \A i \in 1..Len(countdowns), k \in 1..Len(tapLog) :
        (countdowns[i].ended > 0 /\ tapLog[k].stopped) =>
            ~(/\ countdowns[i].start < tapLog[k].t
              /\ tapLog[k].t < countdowns[i].shown[4].at)

\* C28: in the countdown variant motionData is never cleared while capturing
\* is true, and a capture that was stopped is not started again by a countdown
\* begun before the stop.
C28_CaptureKeptUntilStop == C28_SamplesKept /\ C28_NoRestart

\* the ticks of a countdown are 3, 2, 1, 0, one timer period apart from its start
TicksInOrder(c) ==
    /\ Len(c.shown) \in 1..4
    /\ \A j \in 1..Len(c.shown) :
          c.shown[j] = [n |-> 4 - j, at |-> c.start + (j - 1) * TickMs]

\* the timers pending for the i-th countdown c: its next tick and nothing else
\* before the tick of 0, at most the hiding of the display after it
TimersOf(i) == {tm \in timers : tm.id = i}

OneTimerPending(i, c) ==
    IF Len(c.shown) < 4
    THEN /\ TimersOf(i) = {[id |-> i, kind |-> "tick",
                            due |-> c.start + Len(c.shown) * TickMs]}
         /\ c.ended = 0 /\ c.hides = 0
    ELSE /\ TimersOf(i) \subseteq {[id |-> i, kind |-> "hide",
                                     due |-> c.start + 3 * TickMs + HideMs]}
         /\ c.ended = 1 /\ c.hides = 1

C29_CountdownShape ==
    \A i \in 1..Len(countdowns) :
        TicksInOrder(countdowns[i]) /\ OneTimerPending(i, countdowns[i])

\* the i-th countdown has shown its four ticks and called onEnd
CountdownOver(i) == Len(countdowns) >= i /\ countdowns[i].ended = 1

\* C29: a countdown shows 3, 2, 1, 0 on four ticks one timer period apart,
\* calls onEnd once, on the tick of 0, after that tick has no timer but the
\* one that hides the display, and every countdown started comes to that tick.
C29_CountdownTerminates ==
    /\ []C29_CountdownShape
    /\ \A i \in 1..MaxReadings : (Len(countdowns) >= i) ~> CountdownOver(i)

\* a countdown has run to its end and its display is hidden
C29_Witness ==
    \E i \in 1..Len(countdowns) :
        /\ Len(countdowns[i].shown) = 4
        /\ countdowns[i].ended = 1
        /\ TimersOf(i) = {}

(***************************************************************************)
(* Capturing needs the permission                                          *)
(***************************************************************************)
\* a step taken without the permission that is not the granting of it leaves
\* the capture state, the samples and the countdowns as they were
C31_Step ==
    (~permissionGranted /\ ~permissionGranted')
        => UNCHANGED <<capturing, motionData, sinceStart, analysis, countdowns, timers>>

\* C31: capturing is true only if permissionGranted is true, and a double tap
\* received before the permission is granted changes no capture state,
\* records no sample and starts no countdown
C31_CapturingNeedsPermission ==
    [](capturing => permissionGranted) /\ [][C31_Step]_vars

\* a double tap was received before the permission and was ignored
C31_Witness ==
    /\ last.op = "onDoubleTap"
    /\ ~permissionGranted /\ ~capturing /\ motionData = <<>>

(***************************************************************************)
(* A callback that throws                                                  *)
(***************************************************************************)
\* the markers are cleared after the _onMotion in which onJump threw
C32_ClearedAfterThrow ==
    (last.op = "motion" /\ last.threw)
        => /\ det.tContactStart = Null
           /\ det.tTakeoff = Null
           /\ det.tLanding = Null

\* no later event has the contact start of an event whose callback failed
\* (a contact start of 0 is the fallback window cut at the time origin, which
\* two events may share)
C32_NotTakenFromFailed ==
    \A i \in failed : \A j \in (i + 1)..Len(jumps) :
        jumps[i].tContactStart > 0
            => jumps[j].tContactStart # jumps[i].tContactStart

\* C32: if onJump throws while a validated landing is reported, the pending
\* markers tContactStart, tTakeoff and tLanding are still cleared, and the
\* next jump's contact start is never taken from the jump whose callback failed
C32_MarkersClearedWhenCallbackThrows ==
    C32_ClearedAfterThrow /\ C32_NotTakenFromFailed

(***************************************************************************)
(* start() and stop()                                                      *)
(***************************************************************************)
\* start() on a running detector and stop() on a stopped one change neither
\* the detector, nor the registration, nor the events emitted
C33_Step ==
    /\ (last'.op = "start" /\ det.running)
           => UNCHANGED <<det, listening, jumps, streamVars>>
    /\ (last'.op = "stop" /\ ~det.running)
           => UNCHANGED <<det, listening, jumps, streamVars>>

\* C33: start() and stop() are idempotent and keep the devicemotion handler
\* registered iff _running is true: start while running and stop while stopped
\* change nothing, and no sample is processed while the detector is stopped
C33_StartStopIdempotent ==
    /\ [](mode = "live" => (listening <=> det.running))
    /\ [](mode = "live" /\ last.op = "motion" => last.pre.running)
    /\ [][mode = "live" => C33_Step]_vars

\* start() was called on a running detector that has handled samples
C33_Witness ==
    /\ mode = "live" /\ last.op = "start" /\ last.pre.running
    /\ det.running /\ listening /\ nSamples > 0

\* stop() was called on a stopped detector that had been running
C33_WitnessStop ==
    /\ mode = "live" /\ last.op = "stop" /\ ~last.pre.running
    /\ ~det.running /\ ~listening /\ nSamples > 0

(***************************************************************************)
(* The promise of calibrate()                                              *)
(***************************************************************************)
PromiseSettled == calibration.status \in {"resolved", "rejected"}

\* the step is onCalib handling an event with a reading after the window
WindowEvent ==
    /\ Len(calibration'.samples) = Len(calibration.samples) + 1
    /\ perfNow - calibration.t0 >= calibrateMsDefault
    /\ calibration.registered

\* a settled promise stays as it is and no sample is collected after it
C34_Once == PromiseSettled => calibration' = calibration

\* the promise settles only on a motion event with a reading that arrives
\* once the window has elapsed
C34_OnlyOnEvent == (~PromiseSettled /\ PromiseSettled') => WindowEvent

\* the same for a calibration whose listener was registered; without the
\* permission the promise is rejected with no listener and no sample
C34_OnlyOnEventOrDenied ==
    (~PromiseSettled /\ PromiseSettled')
        => \/ calibration.status = "listening" /\ WindowEvent
           \/ /\ calibration.status = "idle"
              /\ calibration'.error = "permission"
              /\ ~calibration'.registered /\ calibration'.samples = <<>>

\* a pending calibration whose window ends within the modelled time settles
C34_Settles ==
    (calibration.status = "listening"
        /\ calibration.t0 + calibrateMsDefault <= MaxClock) ~> PromiseSettled

\* C34: calibrate settles its promise at most once and removes its
\* devicemotion listener before settling, so no sample is collected after
\* completion; it settles only on a motion event carrying acceleration that
\* arrives once the window has elapsed, and if such events keep arriving it
\* eventually settles
C34_CalibrateSettlesOnEvent ==
    /\ [](PromiseSettled => ~calibration.registered)
    /\ [][C34_Once /\ C34_OnlyOnEvent]_vars
    /\ C34_Settles

\* C34 as the code has it: the promise settles at most once, with the
\* listener removed, and no sample is collected afterwards; a calibration
\* that was given the permission settles only on a motion event carrying
\* acceleration that arrives once the window has elapsed, and does settle if
\* such events keep arriving; one that was denied it is rejected at once
C34_CalibrateSettlesOnEventOrDenied ==
    /\ [](PromiseSettled => ~calibration.registered)
    /\ [][C34_Once /\ C34_OnlyOnEventOrDenied]_vars
    /\ C34_Settles

\* the promise was settled by the event that arrived as the window ended,
\* after events that were collected within it
C34_Witness ==
    /\ calibration.status = "resolved" /\ ~calibration.registered
    /\ Len(calibration.samples) >= MinCalibSamples
    /\ perfNow - calibration.t0 = calibrateMsDefault
    /\ calibration.firstStamp < calibration.lastStamp

(***************************************************************************)
(* computeMetrics and JumpMetrics.js                                       *)
(***************************************************************************)
\* flightTime, heightFromFlightTime, contactTime and rsi on an event
ModuleMetrics(evt) ==
    [tf |-> flightTime(evt),
     h |-> heightFromFlightTime(flightTime(evt), G0),
     tc |-> contactTime(evt),
     rsi |-> rsi(heightFromFlightTime(flightTime(evt), G0), contactTime(evt))]

NonPositive(evt) ==
    ~(evt.tLanding - evt.tTakeoff > 0) \/ ~(evt.tTakeoff - evt.tContactStart > 0)

\* C36: summarizeSeries is all-or-nothing and order-preserving: if any event
\* in the list has a non-positive flight or contact time it throws and returns
\* no partial summary; otherwise items has exactly one entry per input event,
\* in input order, each referring to its own event
C36_SummarizeAllOrNothing ==
    seriesSummary.computed =>
        LET r == seriesSummary.result
            n == Len(mEvents)
        IN  IF \E i \in 1..n : NonPositive(mEvents[i])
            THEN r = [threw |-> TRUE]
            ELSE /\ ~r.threw
                 /\ Len(r.items) = n
                 /\ \A i \in 1..n :
                      /\ r.items[i].evt = mEvents[i]
                      /\ r.items[i].tf = mEvents[i].tLanding - mEvents[i].tTakeoff
                      /\ r.items[i].tc = mEvents[i].tTakeoff - mEvents[i].tContactStart

\* summarizeSeries threw on a list whose first event is valid
C36_Witness ==
    /\ seriesSummary.computed /\ seriesSummary.result.threw
    /\ Len(mEvents) = 2
    /\ ~NonPositive(mEvents[1]) /\ NonPositive(mEvents[2])

\* summarizeSeries returned the items of two different valid events in order
C36_WitnessOrder ==
    /\ seriesSummary.computed /\ ~seriesSummary.result.threw
    /\ Len(mEvents) = 2 /\ mEvents[1] # mEvents[2]
    /\ mEvents[2].tContactStart < mEvents[1].tContactStart
    /\ seriesSummary.result.items[2].evt = mEvents[2]

(***************************************************************************)
(* SensorController: the chart buffers and the sensor                      *)
(***************************************************************************)
\* buffer holds the field f of the latest readings pushed, oldest first
LatestOf(buffer, f) ==
    LET n == Len(controller.pushed)
    IN  /\ Len(buffer) = IF n > maxPoints THEN maxPoints ELSE n
        /\ \A i \in 1..Len(buffer) :
              buffer[i] = controller.pushed[n - Len(buffer) + i][f]

\* C37: after any sequence of pushData calls the label buffer and the x, y, z
\* data buffers all have the same length, that length never exceeds maxPoints
\* (100), and they hold the most recent readings in arrival order (the oldest
\* entry is dropped first)
C37_BuffersHoldLatest ==
    /\ Len(controller.labelBuffer) = Len(controller.dataBuffers.x)
    /\ Len(controller.labelBuffer) = Len(controller.dataBuffers.y)
    /\ Len(controller.labelBuffer) = Len(controller.dataBuffers.z)
    /\ Len(controller.labelBuffer) <= maxPoints
    /\ LatestOf(controller.labelBuffer, "t")
    /\ LatestOf(controller.dataBuffers.x, "x")
    /\ LatestOf(controller.dataBuffers.y, "y")
    /\ LatestOf(controller.dataBuffers.z, "z")

\* more than maxPoints readings were pushed, of sensors of both kinds
C37_Witness ==
    /\ Len(controller.pushed) = maxPoints + 2
    /\ Len(controller.labelBuffer) = maxPoints
    /\ controller.dataBuffers.x[1] = controller.pushed[3].x
    /\ \E i, j \in 1..Len(controller.made) :
         /\ controller.made[i].type = "Accelerometer"
         /\ controller.made[j].type = "RelativeOrientationSensor"

\* the sensor objects that are activated
Running == {i \in 1..Len(controller.made) : controller.made[i].activated}

\* the sensor objects whose readings would be pushed
Pushing ==
    {i \in 1..Len(controller.made) :
        controller.made[i].activated /\ controller.made[i].onreading}

\* C38: SensorController has at most one running sensor at any time:
\* startSensor always stops and detaches the previous sensor first, and after
\* a startSensor call for an unsupported type or one whose construction or
\* start throws, this.sensor is null and no reading handler can still push data
C38_OneRunningSensor ==
    /\ Cardinality(Running) <= 1
    /\ Running \subseteq {controller.sensor}
    /\ \A i \in 1..Len(controller.made) :
         i # controller.sensor
            => ~controller.made[i].activated
    /\ (controller.lastOp.op = "startSensor" /\ controller.lastOp.outcome # "ok")
          => controller.sensor = 0 /\ Pushing = {}

\* a startSensor call whose start() threw came after a sensor that was
\* running and had pushed readings
C38_Witness ==
    /\ controller.lastOp.op = "startSensor"
    /\ controller.lastOp.outcome = "startThrew"
    /\ Len(controller.made) >= 2
    /\ controller.pushed # <<>>
    /\ controller.sensor = 0

\* a second sensor runs after the first was stopped and detached
C38_WitnessRestart ==
    /\ controller.lastOp.op = "startSensor" /\ controller.lastOp.outcome = "ok"
    /\ controller.sensor = 2 /\ Running = {2}
    /\ ~controller.made[1].onreading

====
